---------------------------- MODULE Spec2Model ----------------------------
(***************************************************************************)
(* Bibliotech catalog ingestion: the Wikibooks run (populate-wikibooks.js) *)
(* and the Project Gutenberg run (populate-books.js) writing to one books  *)
(* table.  Every network call of a run is one atomic step, so two runs     *)
(* interleave at exactly the points where the scripts await.               *)
(***************************************************************************)
EXTENDS Integers, Sequences, FiniteSets, TLC

(***************************************************************************)
(* JavaScript values.  Strings are TLA+ strings; null is the string NULL   *)
(* (no title, id or key of the model is that string); a number held in an  *)
(* INTEGER column is its canonical decimal string.                         *)
(***************************************************************************)
NULL == "NULL"

NaN == "NaN"

Truthy(v) == v # NULL /\ v # ""

CharAt(s, k) == SubSeq(s, k, k)

\* String.prototype.includes
Includes(s, p) ==
    \E k \in 0..(Len(s) - Len(p)) : SubSeq(s, k + 1, k + Len(p)) = p

\* String.prototype.substring(0, n)
Substring0(s, n) == IF Len(s) <= n THEN s ELSE SubSeq(s, 1, n)

UpperLetters == "ABCDEFGHIJKLMNOPQRSTUVWXYZ"

LowerLetters == "abcdefghijklmnopqrstuvwxyz"

Digits == "0123456789"

UpperToLower ==
    [c \in {CharAt(UpperLetters, k) : k \in 1..Len(UpperLetters)} |->
        CharAt(LowerLetters, CHOOSE k \in 1..Len(UpperLetters) : CharAt(UpperLetters, k) = c)]

LowerChar(c) == IF c \in DOMAIN UpperToLower THEN UpperToLower[c] ELSE c

\* the characters of s from position k on, in lower case
RECURSIVE LowerFrom(_, _)
LowerFrom(s, k) ==
    IF k > Len(s) THEN ""
    ELSE LowerChar(CharAt(s, k)) \o LowerFrom(s, k + 1)

\* String.prototype.toLowerCase
ToLowerCase(s) == CHOOSE lower \in {LowerFrom(t, 1) : t \in {s}} : TRUE

\* String.prototype.replace(/ /g, '_')
RECURSIVE UnderscoresFrom(_, _)
UnderscoresFrom(s, k) ==
    IF k > Len(s) THEN ""
    ELSE (IF CharAt(s, k) = " " THEN "_" ELSE CharAt(s, k)) \o UnderscoresFrom(s, k + 1)

SpacesToUnderscores(s) == CHOOSE replaced \in {UnderscoresFrom(t, 1) : t \in {s}} : TRUE

(***************************************************************************)
(* encodeURIComponent on ASCII: letters, digits and - _ . ! ~ * ' ( ) are  *)
(* kept, every other character becomes %XX.                                *)
(***************************************************************************)
UriUnreserved == UpperLetters \o LowerLetters \o Digits \o "-_.!~*'()"

UriEscapes ==
    << <<" ", "%20">>, <<"#", "%23">>, <<"$", "%24">>, <<"%", "%25">>,
       <<"&", "%26">>, <<"+", "%2B">>, <<",", "%2C">>, <<"/", "%2F">>,
       <<":", "%3A">>, <<";", "%3B">>, <<"<", "%3C">>, <<"=", "%3D">>,
       <<">", "%3E">>, <<"?", "%3F">>, <<"@", "%40">>, <<"[", "%5B">>,
       <<"]", "%5D">>, <<"^", "%5E">>, <<"{", "%7B">>,
       <<"|", "%7C">>, <<"}", "%7D">> >>

UriUnreservedChars == {CharAt(UriUnreserved, k) : k \in 1..Len(UriUnreserved)}

UriEscapeOf ==
    [c \in {UriEscapes[k][1] : k \in 1..Len(UriEscapes)} |->
        UriEscapes[CHOOSE k \in 1..Len(UriEscapes) : UriEscapes[k][1] = c][2]]

EncodeChar(c) == IF c \in UriUnreservedChars THEN c ELSE UriEscapeOf[c]

RECURSIVE EncodeFrom(_, _)
EncodeFrom(s, k) ==
    IF k > Len(s) THEN ""
    ELSE EncodeChar(CharAt(s, k)) \o EncodeFrom(s, k + 1)

EncodeURIComponent(s) == CHOOSE encoded \in {EncodeFrom(t, 1) : t \in {s}} : TRUE

(***************************************************************************)
(* parseInt(s) in base 10 for the Text# column: optional sign, then the    *)
(* longest run of digits; NaN when there is none.  The result is the       *)
(* canonical decimal string of the number.                                 *)
(***************************************************************************)
IsDigit(c) == c # "" /\ Includes(Digits, c)

\* the longest run of digits that s starts with
DigitPrefix(s) ==
    LET stops == {k \in 1..Len(s) : ~IsDigit(CharAt(s, k))}
    IN  IF stops = {} THEN s
        ELSE SubSeq(s, 1, (CHOOSE k \in stops : \A m \in stops : k <= m) - 1)

\* d without its leading zeros, the last digit kept
StripLeadingZeros(d) ==
    LET significant == {k \in 1..Len(d) : CharAt(d, k) # "0"} \cup {Len(d)}
    IN  IF d = "" THEN ""
        ELSE SubSeq(d, CHOOSE k \in significant : \A m \in significant : k <= m, Len(d))

StripLeadingSpaces(s) ==
    LET inked == {k \in 1..Len(s) : CharAt(s, k) # " "}
    IN  IF inked = {} THEN ""
        ELSE SubSeq(s, CHOOSE k \in inked : \A m \in inked : k <= m, Len(s))

ParseInt(text) ==
    LET s    == StripLeadingSpaces(text)
        neg  == s # "" /\ CharAt(s, 1) = "-"
        body == IF s # "" /\ (CharAt(s, 1) = "-" \/ CharAt(s, 1) = "+")
                THEN SubSeq(s, 2, Len(s)) ELSE s
        d    == StripLeadingZeros(DigitPrefix(body))
    IN  IF d = "" THEN NaN
        ELSE IF neg /\ d # "0" THEN "-" \o d
        ELSE d

\* !gutenbergId : 0 and NaN are falsy
FalsyNumber(n) == n = "0" \/ n = NaN

(***************************************************************************)
(* populate-wikibooks.js: identity, classification, curator matching and   *)
(* the page filter.                                                        *)
(***************************************************************************)
\* DEWEY_MAP in Object.entries order (insertion order of the literal)
DEWEY_MAP ==
    << <<"computer", "000">>, <<"programming", "000">>, <<"software", "000">>,
       <<"information", "000">>, <<"philosophy", "100">>, <<"psychology", "100">>,
       <<"religion", "200">>, <<"social", "300">>, <<"sociology", "300">>,
       <<"economics", "300">>, <<"politics", "300">>, <<"language", "400">>,
       <<"linguistics", "400">>, <<"science", "500">>, <<"mathematics", "500">>,
       <<"physics", "500">>, <<"chemistry", "500">>, <<"biology", "500">>,
       <<"technology", "600">>, <<"engineering", "600">>, <<"medicine", "600">>,
       <<"arts", "700">>, <<"music", "780">>, <<"literature", "800">>,
       <<"poetry", "800">>, <<"history", "900">>, <<"geography", "910">> >>

generateWikibookSourceId(title) == EncodeURIComponent(title)

generateBookUri(source, identifier) == source \o "://" \o identifier

\* (x || '')
OrEmpty(v) == IF Truthy(v) THEN v ELSE ""

\* the code of the last entry of map whose keyword occurs in text
RECURSIVE LastKeywordCode(_, _, _, _)
LastKeywordCode(map, text, k, default) ==
    IF k > Len(map) THEN default
    ELSE LastKeywordCode(map, text, k + 1,
                         IF Includes(text, map[k][1]) THEN map[k][2] ELSE default)

\* the code of the first entry of map, from index k on, whose keyword occurs in text
RECURSIVE FirstKeywordCode(_, _, _, _)
FirstKeywordCode(map, text, k, default) ==
    IF k > Len(map) THEN default
    ELSE IF Includes(text, map[k][1]) THEN map[k][2]
    ELSE FirstKeywordCode(map, text, k + 1, default)

getDeweyDecimal(title, extract) ==
    CHOOSE code \in {FirstKeywordCode(DEWEY_MAP, text, 1, "000") :
                        text \in {ToLowerCase(title \o " " \o OrEmpty(extract))}} : TRUE

subjectKeywords ==
    << "computer", "programming", "software", "code", "algorithm", "data", "database",
       "mathematics", "math", "calculus", "algebra", "statistics",
       "physics", "chemistry", "biology", "science",
       "history", "historical", "ancient", "medieval",
       "philosophy", "ethics", "logic", "metaphysics",
       "literature", "poetry", "novel", "writing",
       "language", "linguistics", "grammar", "translation",
       "art", "music", "design", "creative",
       "economics", "business", "finance", "marketing",
       "psychology", "mental", "behavior", "cognitive",
       "education", "teaching", "learning", "pedagogy" >>

\* s.split(' ')[0]
FirstToken(s) ==
    LET blanks == {k \in 1..Len(s) : CharAt(s, k) = " "}
    IN  IF blanks = {} THEN s
        ELSE SubSeq(s, 1, (CHOOSE k \in blanks : \A m \in blanks : k <= m) - 1)

\* s.split(/\s+/) of a string without leading or trailing blanks: the
\* maximal runs of non-blank characters from position k on, in order, the
\* run being read starting at position from
RECURSIVE SplitWords(_, _, _)
SplitWords(s, from, k) ==
    IF k > Len(s) THEN (IF from < k THEN <<SubSeq(s, from, k - 1)>> ELSE <<>>)
    ELSE IF CharAt(s, k) = " "
         THEN (IF from < k THEN <<SubSeq(s, from, k - 1)>> ELSE <<>>)
              \o SplitWords(s, k + 1, k + 1)
         ELSE SplitWords(s, from, k + 1)

\* the score of one faculty member (lines 330-361)
ScoreOf(department, nameWords, text, lowerTitle) ==
    LET exact      == IF department # "" /\ Includes(text, department) THEN 10 ELSE 0
        keywords   == IF department = "" THEN 0
                      ELSE 5 * Cardinality({k \in 1..Len(subjectKeywords) :
                                  /\ Includes(department, subjectKeywords[k])
                                  /\ Includes(text, subjectKeywords[k])})
        names      == 2 * Cardinality({k \in 1..Len(nameWords) :
                                  /\ Len(nameWords[k]) > 3
                                  /\ Includes(text, nameWords[k])})
        inTitle    == IF department # "" /\ Includes(lowerTitle, FirstToken(department))
                      THEN 3 ELSE 0
    IN  exact + keywords + names + inTitle

FacultyScore(member, text, title) ==
    CHOOSE score \in
        {ScoreOf(department, nameWords, text, lowerTitle) :
            department \in {ToLowerCase(OrEmpty(member.department))},
            nameWords  \in {SplitWords(ToLowerCase(OrEmpty(member.name)), 1, 1)},
            lowerTitle \in {ToLowerCase(title)}} : TRUE

\* a later equal score is not a better one
ReplacesOnTie(score, bestScore) == score >= bestScore

\* if (score > bestScore), line 363
Replaces(score, bestScore) == score > bestScore

\* the loop of lines 329-367 over members lo..hi, entered with
\* <<bestMatch, bestScore>> = best: the iterations lo..mid, then mid+1..hi
RECURSIVE BestMatch(_, _, _, _, _, _)
BestMatch(members, text, title, lo, hi, best) ==
    IF lo > hi THEN best
    ELSE IF lo = hi
    THEN CHOOSE next \in
             {IF Replaces(score, best[2]) THEN <<members[lo].id, score>> ELSE best :
                 score \in {FacultyScore(members[lo], text, title)}} : TRUE
    ELSE CHOOSE last \in
             {BestMatch(members, text, title, ((lo + hi) \div 2) + 1, hi, first) :
                 first \in {BestMatch(members, text, title, lo, (lo + hi) \div 2, best)}} : TRUE

\* .limit(100) of the faculty query
FacultyQueryLimit == 100

MatchThreshold == 5

\* matchFacultyToBook once the faculty query has answered with rows
matchFacultyToBook(rows, title, extract, subject) ==
    LET members == IF Len(rows) > FacultyQueryLimit
                   THEN SubSeq(rows, 1, FacultyQueryLimit) ELSE rows
    IN  IF Len(members) = 0 THEN NULL
        ELSE CHOOSE match \in
                 {IF best[2] >= MatchThreshold THEN best[1] ELSE NULL :
                     best \in {BestMatch(members, text, title, 1, Len(members), <<NULL, 0>>) :
                                 text \in {ToLowerCase(title \o " " \o OrEmpty(extract)
                                                        \o " " \o OrEmpty(subject))}}} : TRUE

skipPatterns ==
    << "category:", "template:", "help:", "user:", "file:", "mediawiki:",
       "disambiguation", "redirect", "stub", "book:", "module:" >>

MinTitleLength == 3

\* the patterns looked for in the title as written
isLikelyBookCaseSensitive(pageTitle) ==
    /\ \A k \in 1..Len(skipPatterns) : ~Includes(pageTitle, skipPatterns[k])
    /\ ~(Len(pageTitle) < MinTitleLength)

isLikelyBook(pageTitle) ==
    \E title \in {ToLowerCase(pageTitle)} :
        /\ \A k \in 1..Len(skipPatterns) : ~Includes(title, skipPatterns[k])
        /\ ~(Len(pageTitle) < MinTitleLength)

\* Array.prototype.filter(page => isLikelyBook(page.title))
RECURSIVE FilterFrom(_, _)
FilterFrom(pages, k) ==
    IF k > Len(pages) THEN <<>>
    ELSE (IF isLikelyBook(pages[k]) THEN <<pages[k]>> ELSE <<>>) \o FilterFrom(pages, k + 1)

\* no filter: every listed page is a book page
KeepAllPages(pages) == pages

FilterLikelyBooks(pages) == FilterFrom(pages, 1)

\* Array.prototype.slice(0, n)
Slice0(seq, n) == IF Len(seq) <= n THEN seq ELSE SubSeq(seq, 1, n)

\* Array.prototype.slice(from, to), 0-based, to exclusive
Slice(seq, from, to) ==
    SubSeq(seq, from + 1, IF to < Len(seq) THEN to ELSE Len(seq))

DescriptionLimit == 500

\* the description of lines 424-426
WikibookDescription(details) ==
    IF details.extract # ""
    THEN Substring0(details.extract, DescriptionLimit)
         \o (IF Len(details.extract) > DescriptionLimit THEN "..." ELSE "")
    ELSE "A collaborative textbook from Wikibooks. " \o details.fullurl

(***************************************************************************)
(* populate-books.js (the Project Gutenberg run): classification and cover *)
(***************************************************************************)
GUTENBERG_DEWEY_MAP ==
    << <<"Fiction", "800">>, <<"Literature", "800">>, <<"Poetry", "800">>,
       <<"Drama", "800">>, <<"History", "900">>, <<"Biography", "920">>,
       <<"Philosophy", "100">>, <<"Religion", "200">>, <<"Social Sciences", "300">>,
       <<"Language", "400">>, <<"Science", "500">>, <<"Technology", "600">>,
       <<"Arts", "700">>, <<"Geography", "910">>, <<"Travel", "910">> >>

RECURSIVE FirstSubjectOrTitleCode(_, _, _)
FirstSubjectOrTitleCode(subject, title, k) ==
    IF k > Len(GUTENBERG_DEWEY_MAP) THEN "800"
    ELSE IF \E keyword \in {ToLowerCase(GUTENBERG_DEWEY_MAP[k][1])} :
                Includes(subject, keyword) \/ Includes(title, keyword)
         THEN GUTENBERG_DEWEY_MAP[k][2]
         ELSE FirstSubjectOrTitleCode(subject, title, k + 1)

getGutenbergDeweyDecimal(book) ==
    CHOOSE code \in {FirstSubjectOrTitleCode(subject, title, 1) :
                        subject \in {ToLowerCase(OrEmpty(book.Subject))},
                        title   \in {ToLowerCase(OrEmpty(book.Title))}} : TRUE
\* h.trim().replace(/^"|"$/g, '')
CleanField(field) ==
    LET inked   == {k \in 1..Len(field) : CharAt(field, k) \notin {" ", "\t", "\n", "\r"}}
        trimmed == IF inked = {} THEN ""
                   ELSE SubSeq(field, CHOOSE k \in inked : \A m \in inked : k <= m,
                                      CHOOSE k \in inked : \A m \in inked : k >= m)
        opened  == IF trimmed # "" /\ CharAt(trimmed, 1) = "\""
                   THEN SubSeq(trimmed, 2, Len(trimmed)) ELSE trimmed
    IN  IF opened # "" /\ CharAt(opened, Len(opened)) = "\""
        THEN SubSeq(opened, 1, Len(opened) - 1) ELSE opened

\* the values of one line: the character loop of lines 105-116
ParseLine(line, delimiter) ==
    LET RECURSIVE Scan(_, _, _, _)
        Scan(j, values, current, inQuotes) ==
            IF j > Len(line)
            THEN IF current # "" THEN Append(values, CleanField(current)) ELSE values
            ELSE IF CharAt(line, j) = "\""
            THEN Scan(j + 1, values, current, ~inQuotes)
            ELSE IF (CharAt(line, j) = delimiter \/ CharAt(line, j) = "\n") /\ ~inQuotes
            THEN Scan(j + 1, Append(values, CleanField(current)), "", inQuotes)
            ELSE Scan(j + 1, values, current \o CharAt(line, j), inQuotes)
    IN  Scan(1, <<>>, "", FALSE)

\* parseCSV: the books of a catalog text, each a record over the headers
\* and Text#
parseCSV(csvText) ==
    LET RECURSIVE Split(_, _, _, _)
        \* String.prototype.split(sep): the pieces of s from position k on,
        \* the piece begun at position from included
        Split(str, sep, from, k) ==
            IF k > Len(str) THEN <<SubSeq(str, from, Len(str))>>
            ELSE IF CharAt(str, k) = sep
            THEN <<SubSeq(str, from, k - 1)>> \o Split(str, sep, k + 1, k + 1)
            ELSE Split(str, sep, from, k + 1)
        lines     == SelectSeq(Split(csvText, "\n", 1, 1), LAMBDA line :
                                   \E k \in 1..Len(line) :
                                       CharAt(line, k) \notin {" ", "\t", "\n", "\r"})
        delimiter == IF Includes(lines[1], "\t") THEN "\t" ELSE ","
        cells     == Split(lines[1], delimiter, 1, 1)
        headers   == [k \in 1..Len(cells) |-> CleanField(cells[k])]
        textCols  == {k \in 1..Len(headers) :
                         \/ Includes(ToLowerCase(headers[k]), "text")
                         \/ ToLowerCase(headers[k]) = "id" \/ headers[k] = "Text#"}
        textCol   == CHOOSE k \in textCols : \A m \in textCols : k <= m
        names     == {headers[k] : k \in 1..Len(headers)}
        Get(book, name) == IF name \in DOMAIN book THEN book[name] ELSE ""
        Book(values) ==
            [h \in names |->
                LET at == CHOOSE k \in 1..Len(headers) :
                              headers[k] = h /\ \A m \in 1..Len(headers) : headers[m] = h => m <= k
                IN  IF at <= Len(values) THEN values[at] ELSE ""]
        TextId(book) ==
            IF Get(book, headers[textCol]) # "" THEN Get(book, headers[textCol])
            ELSE IF Get(book, "Text#") # "" THEN Get(book, "Text#")
            ELSE IF Get(book, "text#") # "" THEN Get(book, "text#")
            ELSE IF Get(book, "ID") # "" THEN Get(book, "ID")
            ELSE Get(book, "id")
        RECURSIVE Books(_)
        Books(i) ==
            IF i > Len(lines) THEN <<>>
            ELSE LET book == Book(ParseLine(lines[i], delimiter))
                 IN  (IF TextId(book) # "" /\ ParseInt(TextId(book)) # NaN
                      THEN <<[h \in names \cup {"Text#"} |->
                                 IF h = "Text#" THEN TextId(book) ELSE book[h]]>>
                      ELSE <<>>) \o Books(i + 1)
    IN  IF Len(lines) < 2 \/ textCols = {} THEN <<>> ELSE Books(2)

getGutenbergCoverUrl(gutenbergId) ==
    "https://www.gutenberg.org/cache/epub/" \o gutenbergId
        \o "/pg" \o gutenbergId \o ".cover.medium.jpg"

(***************************************************************************)
(* The state.                                                              *)
(*   schemaVersion  0: supabase-schema.sql alone (gutenberg_id UNIQUE NOT  *)
(*                     NULL, no source, source_id or book_uri column)      *)
(*                  1: after add_book_source_fields.sql                    *)
(*                  2: after add_book_uri_field.sql as well                *)
(*   books          the rows of the books table                            *)
(*   faculty        the rows of the faculty table, in the order a query    *)
(*                  returns them                                           *)
(*   credentials    SUPABASE_URL and SUPABASE_SERVICE_ROLE_KEY are set     *)
(*   apiPages       the Wikibooks allpages listing, one element per        *)
(*                  response, each the page titles of that response        *)
(*   catalog        the rows parseCSV yields from the Gutenberg catalog    *)
(*   schedule       how the operator launches the scripts: "interleaved"   *)
(*                  (both at once) or "sequential" (each after the one     *)
(*                  before it has ended)                                   *)
(*   run            the local state of each running script                 *)
(*                  (its field listingFailed is history: a listing request *)
(*                  of the run has failed)                                 *)
(*   hist           history: per run, one entry per item whose processing  *)
(*                  has finished                                           *)
(*   added          history: per run, the ids of the rows it inserted      *)
(*   calls          the direct calls made of the exported pure functions,  *)
(*                  each with its arguments and its result (no run         *)
(*                  changes it)                                            *)
(***************************************************************************)
VARIABLES schemaVersion, books, faculty, credentials, apiPages, catalog,
          schedule, run, hist, added, calls

vars == <<schemaVersion, books, faculty, credentials, apiPages, catalog,
          schedule, run, hist, added, calls>>

env == <<schemaVersion, faculty, credentials, apiPages, catalog, schedule, calls>>

Runs == {1, 2}

HasSourceColumn == schemaVersion >= 1

HasUriColumn == schemaVersion >= 2

(***************************************************************************)
(* The books table: columns, defaults, constraints and error messages.     *)
(***************************************************************************)
Columns ==
    {"gutenberg_id", "title", "author", "dewey_decimal", "language", "subject",
     "publisher", "publication_date", "description", "cover_url", "faculty_id"}
    \cup (IF HasSourceColumn THEN {"source", "source_id"} ELSE {})
    \cup (IF HasUriColumn THEN {"book_uri"} ELSE {})

\* the column default of the schema, NULL when the column has none or is absent
ColumnDefault(column) ==
    CASE column = "source" /\ HasSourceColumn -> "gutenberg"
      [] column = "language" -> "en"
      [] OTHER -> NULL

AllColumns ==
    {"gutenberg_id", "title", "author", "dewey_decimal", "language", "subject",
     "publisher", "publication_date", "description", "cover_url", "faculty_id",
     "source", "source_id", "book_uri"}

\* the row an accepted INSERT of payload stores
StoredRow(payload, id) ==
    [c \in AllColumns \cup {"id"} |->
        IF c = "id" THEN id
        ELSE IF c \in DOMAIN payload THEN payload[c]
        ELSE ColumnDefault(c)]

NextRowId == Cardinality(books) + 1

ColumnMissingMessage(column) ==
    "Could not find the '" \o column \o "' column of 'books' in the schema cache"

UniqueMessage(constraint) ==
    "duplicate key value violates unique constraint " \o constraint

NotNullMessage(column) ==
    "null value in column " \o column \o " violates not-null constraint"

\* a failure of the store that is neither a schema mismatch nor a constraint
OtherStoreMessage == "permission denied for table books"

\* a store that enforces no uniqueness constraint
NoUniqueConflict(row, keyColumns) == FALSE

\* SQL UNIQUE: two rows conflict when every key column is non-null and equal
UniqueConflict(row, keyColumns) ==
    /\ \A c \in keyColumns : row[c] # NULL
    /\ \E b \in books : \A c \in keyColumns : b[c] = row[c]

\* a store whose (source, source_id) pairs are not kept unique
ConstraintErrorsUriOnly(row) ==
    (IF schemaVersion = 0 /\ row.gutenberg_id = NULL
     THEN {NotNullMessage("gutenberg_id")} ELSE {})
    \cup (IF schemaVersion = 0 /\ UniqueConflict(row, {"gutenberg_id"})
          THEN {UniqueMessage("books_gutenberg_id_key")} ELSE {})
    \cup (IF HasUriColumn /\ UniqueConflict(row, {"book_uri"})
          THEN {UniqueMessage("books_book_uri_key")} ELSE {})

\* the constraint errors an INSERT of row raises under the current schema
ConstraintErrors(row) ==
    (IF schemaVersion = 0 /\ row.gutenberg_id = NULL
     THEN {NotNullMessage("gutenberg_id")} ELSE {})
    \cup (IF schemaVersion = 0 /\ UniqueConflict(row, {"gutenberg_id"})
          THEN {UniqueMessage("books_gutenberg_id_key")} ELSE {})
    \cup (IF HasSourceColumn /\ UniqueConflict(row, {"source", "source_id"})
          THEN {UniqueMessage("books_source_source_id_unique")} ELSE {})
    \cup (IF HasUriColumn /\ UniqueConflict(row, {"book_uri"})
          THEN {UniqueMessage("books_book_uri_key")} ELSE {})

\* every answer the store can give to INSERT payload: "" is success
InsertAnswers(payload) ==
    LET unknown == DOMAIN payload \ Columns
    IN  IF unknown # {} THEN {ColumnMissingMessage(c) : c \in unknown}
        ELSE LET errs == ConstraintErrors(StoredRow(payload, NextRowId))
             IN  (IF errs = {} THEN {""} ELSE errs) \cup {OtherStoreMessage}

\* a lookup that never finds a row
SelectNothing(filter) == {}

\* .eq(column, value)... .maybeSingle() / .single(): data is the row when the
\* filter is on existing columns and exactly one row matches, else null
SelectOne(filter) ==
    IF ~(DOMAIN filter \subseteq Columns) THEN {}
    ELSE LET hit == {b \in books : \A c \in DOMAIN filter : b[c] = filter[c]}
         IN  IF Cardinality(hit) = 1 THEN hit ELSE {}

(***************************************************************************)
(* The local state of a run and the history kept about it.                 *)
(***************************************************************************)
NoDetails == [title |-> "", extract |-> "", fullurl |-> ""]

\* the batchSize constants of the item loops
WikiBatchSize == 5

GutenbergBatchSize == 50

\* a script before its first statement
NewRun(kind, limit) ==
    [kind |-> kind, pc |-> "start", limit |-> limit, exitCode |-> -1,
     allPages |-> <<>>, continueToken |-> 0, fetched |-> 0,
     pagesToProcess |-> <<>>, i |-> 0, batch |-> <<>>, j |-> 0,
     details |-> NoDetails, sourceId |-> "", bookUri |-> "", bookData |-> <<>>,
     existing |-> {},
     inserted |-> 0, skipped |-> 0, errors |-> 0, linkedToFaculty |-> 0,
     listingFailed |-> FALSE,
     batchSize |-> IF kind = "gutenberg" THEN GutenbergBatchSize ELSE WikiBatchSize]

Finished(r) == run[r].pc \in {"done", "exited"}

\* run r may take a step under the schedule
Scheduled(r) == schedule = "sequential" => \A q \in Runs : q < r => Finished(q)

Set(r, changes) == run' = [run EXCEPT ![r] = changes @@ @]

\* an item loop that takes a null from the upsert call for a failure
CounterForNullAsError(result) == IF result = "data" THEN "inserted" ELSE "errors"

\* an item loop that counts every item that did not throw as inserted
CounterForNullAsInserted(result) == IF result = "throw" THEN "errors" ELSE "inserted"

\* the counter the item loop increments for what the upsert call came to:
\* a row ("data"), null ("null") or an exception ("throw")
CounterFor(result) ==
    CASE result = "data" -> "inserted"
      [] result = "null" -> "skipped"
      [] OTHER -> "errors"

\* the run's counters after one more item with the given result
\* counters in which an item that came to nothing is not counted at all
TallyWithoutSkipped(r, result, facultyId) ==
    [inserted |-> run[r].inserted + (IF CounterFor(result) = "inserted" THEN 1 ELSE 0),
     skipped |-> run[r].skipped,
     errors |-> run[r].errors + (IF CounterFor(result) = "errors" THEN 1 ELSE 0),
     linkedToFaculty |-> run[r].linkedToFaculty
         + (IF CounterFor(result) = "inserted" /\ Truthy(facultyId) THEN 1 ELSE 0)]

Tally(r, result, facultyId) ==
    [inserted |-> run[r].inserted + (IF CounterFor(result) = "inserted" THEN 1 ELSE 0),
     skipped |-> run[r].skipped + (IF CounterFor(result) = "skipped" THEN 1 ELSE 0),
     errors |-> run[r].errors + (IF CounterFor(result) = "errors" THEN 1 ELSE 0),
     linkedToFaculty |-> run[r].linkedToFaculty
         + (IF CounterFor(result) = "inserted" /\ Truthy(facultyId) THEN 1 ELSE 0)]

\* history entry of a finished item: its key, how the details request ended
\* ("ok", "missing", "error", "invalid"), the lookup that found it ("" when
\* none did), the inserts issued, the error left after the last one, what
\* the upsert came to, and the counter the run incremented for it
Entry(r, key, details, via, attempts, error, result, tally) ==
    [key |-> key, details |-> details, via |-> via, attempts |-> attempts,
     error |-> error, result |-> result,
     counter |-> CASE tally.inserted > run[r].inserted -> "inserted"
                   [] tally.skipped > run[r].skipped -> "skipped"
                   [] tally.errors > run[r].errors -> "errors"
                   [] OTHER -> "none"]

\* the item loop's bookkeeping for one finished item, then on to pcNext
Finish(r, pcNext, key, details, via, attempts, error, result, facultyId) ==
    LET tally == Tally(r, result, facultyId)
    IN  /\ run' = [run EXCEPT ![r] = pcNext @@ tally @@ @]
        /\ hist' = [hist EXCEPT ![r] =
                       Append(@, Entry(r, key, details, via, attempts, error, result, tally))]

\* process.exit(code), or the script running off its end (code 0)
Exit(r, code) == Set(r, [pc |-> "exited", exitCode |-> code])

(***************************************************************************)
(* The Wikibooks API as the run sees it.                                   *)
(***************************************************************************)
\* the answer to a listing request carrying continuation token k (0: none)
ListingResponse(token) ==
    IF token + 1 > Len(apiPages) THEN [pages |-> <<>>, continueToken |-> 0]
    ELSE [pages |-> apiPages[token + 1],
          continueToken |-> IF token + 1 < Len(apiPages) THEN token + 1 ELSE 0]

ExtractOf(title) ==
    CASE title = "Python Programming" -> "An introduction to programming in Python."
      [] OTHER -> ""

\* what fetchWikibookDetails resolves to for a page that exists
DetailsOf(pageTitle) ==
    [title |-> pageTitle, extract |-> ExtractOf(pageTitle),
     fullurl |-> "https://en.wikibooks.org/wiki/" \o SpacesToUnderscores(pageTitle)]

(***************************************************************************)
(* populate-wikibooks.js, one action per awaited call.                     *)
(***************************************************************************)

\* run r is a Wikibooks run about to execute the step at pc
WikiAt(r, pc) == run[r].kind = "wikibooks" /\ run[r].pc = pc /\ Scheduled(r)

\* a loop that walks its batch from the end
CurrentPageFromEnd(r) == run[r].batch[Len(run[r].batch) + 1 - run[r].j]

CurrentPage(r) == run[r].batch[run[r].j]

\* module load: the credentials check of lines 30-36
WStart(r) ==
    /\ WikiAt(r, "start")
    /\ IF credentials THEN Set(r, [pc |-> "schemaSource"]) ELSE Exit(r, 1)
    /\ UNCHANGED <<env, books, hist, added>>

\* a schema check that goes on without the source column
WCheckSourceWarns(r) ==
    /\ WikiAt(r, "schemaSource")
    /\ Set(r, [pc |-> "schemaUri"])
    /\ UNCHANGED <<env, books, hist, added>>

\* checkDatabaseSchema: select('source')
WCheckSource(r) ==
    /\ WikiAt(r, "schemaSource")
    /\ IF HasSourceColumn THEN Set(r, [pc |-> "schemaUri"]) ELSE Exit(r, 1)
    /\ UNCHANGED <<env, books, hist, added>>

\* checkDatabaseSchema: select('book_uri'); true with or without the column
WCheckUri(r) ==
    /\ WikiAt(r, "schemaUri")
    /\ Set(r, [pc |-> "fetch"])
    /\ UNCHANGED <<env, books, hist, added>>

FetchLimit(r) == IF run[r].limit = 0 THEN 0 ELSE run[r].limit * 2

\* a return that slices whether or not a limit was given
FetchResultSliced(allPages, limit) == Slice0(allPages, limit)

\* a return that never slices
FetchResultUnsliced(allPages, limit) == allPages

\* what fetchWikibooks returns from allPages
FetchResult(allPages, limit) == IF limit = 0 THEN allPages ELSE Slice0(allPages, limit)

\* one listing request of fetchWikibooks that is answered
WFetchPage(r) ==
    /\ WikiAt(r, "fetch")
    /\ LET limit    == FetchLimit(r)
           fetchAll == limit = 0
           batch    == ListingResponse(run[r].continueToken)
           allPages == run[r].allPages \o batch.pages
           fetched  == run[r].fetched + Len(batch.pages)
       IN  IF ~(fetchAll \/ run[r].fetched < limit)
           THEN Set(r, [pc |-> "filter",
                        allPages |-> FetchResult(run[r].allPages, limit)])
           ELSE IF batch.continueToken = 0 \/ (~fetchAll /\ fetched >= limit)
           THEN Set(r, [pc |-> "filter", fetched |-> fetched,
                        continueToken |-> batch.continueToken,
                        allPages |-> FetchResult(allPages, limit)])
           ELSE Set(r, [pc |-> "fetchDelay", fetched |-> fetched,
                        continueToken |-> batch.continueToken,
                        allPages |-> allPages])
    /\ UNCHANGED <<env, books, hist, added>>

\* fetchWikibooks throws: the handler of lines 663-666
CatchFetchError(r) ==
    Set(r, [pc |-> "exited", exitCode |-> 1, listingFailed |-> TRUE])

\* a listing request that fails (status, body, API error, network): the
\* promise rejects and fetchWikibooks throws
WFetchPageFails(r) ==
    /\ WikiAt(r, "fetch")
    /\ FetchLimit(r) = 0 \/ run[r].fetched < FetchLimit(r)
    /\ CatchFetchError(r)
    /\ UNCHANGED <<env, books, hist, added>>

\* the 500 ms wait between listing requests
WFetchDelay(r) ==
    /\ WikiAt(r, "fetchDelay")
    /\ Set(r, [pc |-> "fetch"])
    /\ UNCHANGED <<env, books, hist, added>>

\* lines 580-596: filter, the early return, the slice to the limit
WFilter(r) ==
    /\ WikiAt(r, "filter")
    /\ LET bookPages == FilterLikelyBooks(run[r].allPages)
       IN  IF Len(bookPages) = 0 THEN Exit(r, 0)
           ELSE Set(r, [pc |-> "batch", i |-> 0,
                        pagesToProcess |-> IF run[r].limit = 0 THEN bookPages
                                           ELSE Slice0(bookPages, run[r].limit)])
    /\ UNCHANGED <<env, books, hist, added>>

\* the head of the batch loop, line 600
WBatch(r) ==
    /\ WikiAt(r, "batch")
    /\ IF run[r].i < Len(run[r].pagesToProcess)
       THEN Set(r, [pc |-> "details", j |-> 1,
                    batch |-> Slice(run[r].pagesToProcess, run[r].i,
                                    run[r].i + run[r].batchSize)])
       ELSE Set(r, [pc |-> "summary"])
    /\ UNCHANGED <<env, books, hist, added>>

\* where the item loop goes once the current item is over
AfterItem(r) ==
    IF run[r].j < Len(run[r].batch)
    THEN [pc |-> "details", j |-> run[r].j + 1]
    ELSE [pc |-> "batchEnd"]

\* fetchWikibookDetails resolves with the page
WDetails(r) ==
    /\ WikiAt(r, "details")
    /\ Set(r, [pc |-> "delay300", details |-> DetailsOf(CurrentPage(r))])
    /\ UNCHANGED <<env, books, hist, added>>

\* fetchWikibookDetails resolves with null (page missing): skipped++, continue
WDetailsMissing(r) ==
    /\ WikiAt(r, "details")
    /\ Finish(r, AfterItem(r), CurrentPage(r), "missing", "", 0, "", "null", NULL)
    /\ UNCHANGED <<env, books, added>>

\* an item loop without the catch: the rejection reaches the handler of
\* lines 663-666 and the run ends
RethrowItemError(r) == Exit(r, 1) /\ UNCHANGED hist

\* the catch of lines 637-640: errors++, then on to the wait after the item
CatchItemError(r) ==
    Finish(r, [pc |-> "delay400"], CurrentPage(r), "error", "", 0, "", "throw", NULL)

\* fetchWikibookDetails rejects
WDetailsFails(r) ==
    /\ WikiAt(r, "details")
    /\ CatchItemError(r)
    /\ UNCHANGED <<env, books, added>>

\* the 300 ms wait before insertWikibook
WDelay300(r) ==
    /\ WikiAt(r, "delay300")
    /\ Set(r, [pc |-> "lookupUri"])
    /\ UNCHANGED <<env, books, hist, added>>

\* insertWikibook returns null because the record exists
WExists(r, via) ==
    Finish(r, [pc |-> "delay400"], CurrentPage(r), "ok", via, 0, "", "null", NULL)

\* insertWikibook: lines 382-384, then the lookup by book_uri
WLookupUri(r) ==
    /\ WikiAt(r, "lookupUri")
    /\ LET sourceId == generateWikibookSourceId(CurrentPage(r))
           bookUri  == generateBookUri("wikibooks", sourceId)
       IN  IF SelectOne([book_uri |-> bookUri]) # {}
           THEN WExists(r, "book_uri")
           ELSE /\ Set(r, [pc |-> "lookupSource", sourceId |-> sourceId,
                           bookUri |-> bookUri])
                /\ UNCHANGED hist
    /\ UNCHANGED <<env, books, added>>

\* insertWikibook without the fallback lookup
WLookupUriOnly(r) ==
    /\ WikiAt(r, "lookupSource")
    /\ Set(r, [pc |-> "match"])
    /\ UNCHANGED <<env, books, hist, added>>

\* insertWikibook: the fallback lookup by source and source_id
WLookupSource(r) ==
    /\ WikiAt(r, "lookupSource")
    /\ IF SelectOne([source |-> "wikibooks", source_id |-> run[r].sourceId]) # {}
       THEN WExists(r, "source")
       ELSE Set(r, [pc |-> "match"]) /\ UNCHANGED hist
    /\ UNCHANGED <<env, books, added>>

\* bookData of lines 428-442 for a page, its details and the matched curator
WikibookRecord(title, sourceId, details, facultyId) ==
    [source |-> "wikibooks", source_id |-> sourceId,
     gutenberg_id |-> NULL, title |-> title, author |-> "Wikibooks Contributors",
     dewey_decimal |-> getDeweyDecimal(title, details.extract),
     language |-> "en", subject |-> NULL, publisher |-> "Wikibooks",
     publication_date |-> NULL, description |-> WikibookDescription(details),
     cover_url |-> NULL, faculty_id |-> facultyId]

\* bookDataWithUri of lines 446-449
WithUri(bookData, bookUri) == [book_uri |-> bookUri] @@ bookData

\* insertWikibook: matchFacultyToBook's query of the faculty table, then
\* bookData is built
WMatchFaculty(r) ==
    /\ WikiAt(r, "match")
    /\ LET facultyId == matchFacultyToBook(faculty, CurrentPage(r),
                                           run[r].details.extract, NULL)
       IN  Set(r, [pc |-> "insertWithUri",
                   bookData |-> WikibookRecord(CurrentPage(r), run[r].sourceId,
                                               run[r].details, facultyId)])
    /\ UNCHANGED <<env, books, hist, added>>

\* insertWikibook without the retry
NeverRetry(message) == FALSE

\* line 460: the retry is taken when the message names book_uri
RetryWithoutUri(message) == Includes(message, "book_uri")

\* line 470
IsDuplicateMessage(message) == Includes(message, "duplicate") \/ Includes(message, "unique")

\* the store accepted the insert: the row is stored and returned
WInserted(r, payload, attempts) ==
    /\ books' = books \cup {StoredRow(payload, NextRowId)}
    /\ added' = [added EXCEPT ![r] = @ \cup {NextRowId}]
    /\ Finish(r, [pc |-> "delay400"], CurrentPage(r), "ok", "", attempts, "", "data",
              payload.faculty_id)

\* lines 468-475: an error left after the last attempt; null either way
WInsertError(r, attempts, message) ==
    /\ Finish(r, [pc |-> "delay400"], CurrentPage(r), "ok", "", attempts, message,
              "null", NULL)
    /\ UNCHANGED <<books, added>>

\* insertWikibook: the insert of bookDataWithUri
WInsertWithUri(r) ==
    /\ WikiAt(r, "insertWithUri")
    /\ \E message \in InsertAnswers(WithUri(run[r].bookData, run[r].bookUri)) :
          IF message = "" THEN WInserted(r, WithUri(run[r].bookData, run[r].bookUri), 1)
          ELSE IF RetryWithoutUri(message)
          THEN Set(r, [pc |-> "insertWithoutUri"]) /\ UNCHANGED <<books, hist, added>>
          ELSE WInsertError(r, 1, message)
    /\ UNCHANGED env

\* insertWikibook: the retry with bookData
WInsertWithoutUri(r) ==
    /\ WikiAt(r, "insertWithoutUri")
    /\ \E message \in InsertAnswers(run[r].bookData) :
          IF message = "" THEN WInserted(r, run[r].bookData, 2)
          ELSE WInsertError(r, 2, message)
    /\ UNCHANGED env

\* the 400 ms wait after an item
WDelay400(r) ==
    /\ WikiAt(r, "delay400")
    /\ Set(r, AfterItem(r))
    /\ UNCHANGED <<env, books, hist, added>>

\* lines 646-650: the end of a batch that has a successor waits 2 s
WBatchEnd(r) ==
    /\ WikiAt(r, "batchEnd")
    /\ IF run[r].i + run[r].batchSize < Len(run[r].pagesToProcess)
       THEN Set(r, [pc |-> "batchDelay"])
       ELSE Set(r, [pc |-> "batch", i |-> run[r].i + run[r].batchSize])
    /\ UNCHANGED <<env, books, hist, added>>

\* a wait between batches that moves on by the constant, not by the size of
\* the batch just sliced
WBatchDelayFixedStride(r) ==
    /\ WikiAt(r, "batchDelay")
    /\ Set(r, [pc |-> "batch", i |-> run[r].i + WikiBatchSize])
    /\ UNCHANGED <<env, books, hist, added>>

WBatchDelay(r) ==
    /\ WikiAt(r, "batchDelay")
    /\ Set(r, [pc |-> "batch", i |-> run[r].i + run[r].batchSize])
    /\ UNCHANGED <<env, books, hist, added>>

\* the summary of lines 653-661, then the script ends
WSummary(r) ==
    /\ WikiAt(r, "summary")
    /\ Set(r, [pc |-> "done", exitCode |-> 0])
    /\ UNCHANGED <<env, books, hist, added>>

WikiStep(r) ==
    \/ WStart(r) \/ WCheckSource(r) \/ WCheckUri(r)
    \/ WFetchPage(r) \/ WFetchPageFails(r) \/ WFetchDelay(r)
    \/ WFilter(r) \/ WBatch(r)
    \/ WDetails(r) \/ WDetailsMissing(r) \/ WDetailsFails(r) \/ WDelay300(r)
    \/ WLookupUri(r) \/ WLookupSource(r) \/ WMatchFaculty(r)
    \/ WInsertWithUri(r) \/ WInsertWithoutUri(r)
    \/ WDelay400(r) \/ WBatchEnd(r) \/ WBatchDelay(r) \/ WSummary(r)

(***************************************************************************)
(* populate-books.js, one action per awaited call.                         *)
(***************************************************************************)

\* run r is a Gutenberg run about to execute the step at pc
GutenbergAt(r, pc) == run[r].kind = "gutenberg" /\ run[r].pc = pc /\ Scheduled(r)

\* book[key] of a parsed catalog row: undefined (NULL) for a missing header
Field(book, key) == IF key \in DOMAIN book THEN book[key] ELSE NULL

\* (x || d)
OrDefault(v, d) == IF Truthy(v) THEN v ELSE d

CurrentBook(r) == run[r].batch[run[r].j]

GutenbergId(r) == ParseInt(Field(CurrentBook(r), "Text#"))

\* module load: the credentials check of lines 19-25
GStart(r) ==
    /\ GutenbergAt(r, "start")
    /\ IF credentials THEN Set(r, [pc |-> "fetch"]) ELSE Exit(r, 1)
    /\ UNCHANGED <<env, books, hist, added>>

\* fetchGutenbergCatalog answered and parseCSV applied to the text
GFetchCatalog(r) ==
    /\ GutenbergAt(r, "fetch")
    /\ Set(r, [pc |-> "batch", i |-> 0, pagesToProcess |-> catalog])
    /\ UNCHANGED <<env, books, hist, added>>

\* the catalog request fails: populateBooks rejects into .catch(console.error)
GFetchCatalogFails(r) ==
    /\ GutenbergAt(r, "fetch")
    /\ Exit(r, 0)
    /\ UNCHANGED <<env, books, hist, added>>

\* the head of the batch loop, line 258
GBatch(r) ==
    /\ GutenbergAt(r, "batch")
    /\ IF run[r].i < Len(run[r].pagesToProcess)
       THEN Set(r, [pc |-> "lookup", j |-> 1,
                    batch |-> Slice(run[r].pagesToProcess, run[r].i,
                                    run[r].i + run[r].batchSize)])
       ELSE Set(r, [pc |-> "summary"])
    /\ UNCHANGED <<env, books, hist, added>>

GFinish(r, details, via, attempts, message, result) ==
    Finish(r, [pc |-> "delay100"], Field(CurrentBook(r), "Text#"), details, via,
           attempts, message, result, NULL)

\* insertBook line 185: no usable id, null without any request
GInvalidId(r) ==
    /\ GutenbergAt(r, "lookup")
    /\ FalsyNumber(GutenbergId(r))
    /\ GFinish(r, "invalid", "", 0, "", "null")
    /\ UNCHANGED <<env, books, added>>

\* insertBook: the lookup by gutenberg_id
GLookup(r) ==
    /\ GutenbergAt(r, "lookup")
    /\ ~FalsyNumber(GutenbergId(r))
    /\ LET existing == SelectOne([gutenberg_id |-> GutenbergId(r)])
       IN  IF existing = {}
           THEN Set(r, [pc |-> "insert"]) /\ UNCHANGED hist
           ELSE IF \E b \in existing : ~Truthy(b.cover_url)
           THEN /\ Set(r, [pc |-> "updateCover", existing |-> {b.id : b \in existing}])
                /\ UNCHANGED hist
           ELSE GFinish(r, "ok", "gutenberg_id", 0, "", "null")
    /\ UNCHANGED <<env, books, added>>

\* bookData of lines 213-224 for a catalog row
GutenbergRecord(book) ==
    [gutenberg_id |-> ParseInt(Field(book, "Text#")),
     title |-> OrDefault(Field(book, "Title"), "Untitled"),
     author |-> OrDefault(Field(book, "Author"), "Unknown"),
     dewey_decimal |-> getGutenbergDeweyDecimal(
         [Subject |-> Field(book, "Subject"), Title |-> Field(book, "Title")]),
     language |-> OrDefault(Field(book, "Language"), "en"),
     subject |-> OrDefault(Field(book, "Subject"), ""),
     publisher |-> "Project Gutenberg",
     publication_date |-> OrDefault(Field(book, "Release Date"), NULL),
     description |-> OrDefault(Field(book, "Note"), ""),
     cover_url |-> getGutenbergCoverUrl(ParseInt(Field(book, "Text#")))]

GutenbergBookData(r) == GutenbergRecord(CurrentBook(r))

\* insertBook with a backfill that rewrites the found row from the catalog row
GUpdateRecord(r) ==
    /\ GutenbergAt(r, "updateCover")
    /\ books' = {IF b.id \in run[r].existing
                 THEN [c \in DOMAIN b |-> IF c \in DOMAIN GutenbergBookData(r)
                                          THEN GutenbergBookData(r)[c] ELSE b[c]]
                 ELSE b : b \in books}
    /\ GFinish(r, "ok", "gutenberg_id", 0, "", "null")
    /\ UNCHANGED <<env, added>>

\* insertBook with a backfill that returns the row it updated
GUpdateCoverReturnsRow(r) ==
    /\ GutenbergAt(r, "updateCover")
    /\ books' = {IF b.id \in run[r].existing
                 THEN [b EXCEPT !["cover_url"] = getGutenbergCoverUrl(GutenbergId(r))]
                 ELSE b : b \in books}
    /\ GFinish(r, "ok", "gutenberg_id", 0, "", "data")
    /\ UNCHANGED <<env, added>>

\* insertBook: the cover backfill of lines 201-204, then null
GUpdateCover(r) ==
    /\ GutenbergAt(r, "updateCover")
    /\ books' = {IF b.id \in run[r].existing
                 THEN [b EXCEPT !["cover_url"] = getGutenbergCoverUrl(GutenbergId(r))]
                 ELSE b : b \in books}
    /\ GFinish(r, "ok", "gutenberg_id", 0, "", "null")
    /\ UNCHANGED <<env, added>>

\* insertBook: the insert; any error is logged and null returned
GInsert(r) ==
    /\ GutenbergAt(r, "insert")
    /\ \E message \in InsertAnswers(GutenbergBookData(r)) :
          IF message = ""
          THEN /\ books' = books \cup {StoredRow(GutenbergBookData(r), NextRowId)}
               /\ added' = [added EXCEPT ![r] = @ \cup {NextRowId}]
               /\ GFinish(r, "ok", "", 1, "", "data")
          ELSE /\ GFinish(r, "ok", "", 1, message, "null")
               /\ UNCHANGED <<books, added>>
    /\ UNCHANGED env

\* the 100 ms wait after a book
GDelay100(r) ==
    /\ GutenbergAt(r, "delay100")
    /\ Set(r, IF run[r].j < Len(run[r].batch)
              THEN [pc |-> "lookup", j |-> run[r].j + 1]
              ELSE [pc |-> "batchDelay"])
    /\ UNCHANGED <<env, books, hist, added>>

\* the 1 s wait after every batch, line 280
GBatchDelay(r) ==
    /\ GutenbergAt(r, "batchDelay")
    /\ Set(r, [pc |-> "batch", i |-> run[r].i + run[r].batchSize])
    /\ UNCHANGED <<env, books, hist, added>>

\* the summary of lines 283-287, then the script ends
GSummary(r) ==
    /\ GutenbergAt(r, "summary")
    /\ Set(r, [pc |-> "done", exitCode |-> 0])
    /\ UNCHANGED <<env, books, hist, added>>

GutenbergStep(r) ==
    \/ GStart(r) \/ GFetchCatalog(r) \/ GFetchCatalogFails(r) \/ GBatch(r)
    \/ GInvalidId(r) \/ GLookup(r) \/ GUpdateCover(r) \/ GInsert(r)
    \/ GDelay100(r) \/ GBatchDelay(r) \/ GSummary(r)

(***************************************************************************)
(* Inputs of the model and the initial states.                             *)
(***************************************************************************)
\* a catalog row as parseCSV builds it
CatalogRow(text, title, subject) ==
    [h \in {"Text#", "Title", "Subject", "Language"} |->
        CASE h = "Text#" -> text
          [] h = "Title" -> title
          [] h = "Subject" -> subject
          [] OTHER -> "en"]

GutenbergCatalog ==
    << CatalogRow("12345", "Pride and Prejudice", "Fiction"),
       CatalogRow("0", "Catalog Notes", "") >>

\* two listing responses, three pages, two of them books
ShortListing ==
    << <<"Python Programming", "Category:Programming">>, <<"Art History">> >>

\* two listing responses, eight pages, six of them books: two batches
LongListing ==
    << <<"Python Programming", "Art History", "Go", "Linear Algebra",
         "Organic Chemistry", "World History">>,
       <<"Music Theory", "Stub articles">> >>

FacultyRows ==
    << [id |-> "f1", name |-> "Ada Lovelace", department |-> "Computer Science"],
       [id |-> "f2", name |-> "Giorgio Vasari", department |-> "Art History"] >>

\* the Wikibooks row an earlier run stored for title; without book_uri when the
\* column is absent or the row predates it
EarlierWikibook(title, withUri, id) ==
    LET bookData == WikibookRecord(title, generateWikibookSourceId(title),
                                   DetailsOf(title), NULL)
    IN  StoredRow(IF withUri /\ HasUriColumn
                  THEN WithUri(bookData, generateBookUri(bookData.source, bookData.source_id))
                  ELSE bookData, id)

\* the Gutenberg row an earlier run stored for a catalog row, as the
\* migrations rewrote it: source_id and book_uri filled from gutenberg_id
EarlierGutenbergBook(book, withCover, id) ==
    LET bookData == GutenbergRecord(book)
        migrated == [source_id |-> bookData.gutenberg_id,
                     book_uri |-> generateBookUri("gutenberg", bookData.gutenberg_id)]
        row      == StoredRow(bookData, id)
    IN  [c \in DOMAIN row |->
            IF c = "cover_url" /\ ~withCover THEN NULL
            ELSE IF c = "source_id" /\ HasSourceColumn THEN migrated.source_id
            ELSE IF c = "book_uri" /\ HasUriColumn THEN migrated.book_uri
            ELSE row[c]]

\* a stored row after later edits of some of its columns (a curator linked by
\* hand, a classification refined by the reclassification script)
Curated(row, changes) ==
    [c \in DOMAIN row |-> IF c \in DOMAIN changes THEN changes[c] ELSE row[c]]

\* the row for a page as the repository's documents write it: spaces of the
\* title as underscores in source_id and book_uri
DocumentedWikibook(title, id) ==
    Curated(EarlierWikibook(title, TRUE, id),
            [source_id |-> SpacesToUnderscores(title),
             book_uri |-> generateBookUri("wikibooks", SpacesToUnderscores(title))])

\* the stores a Wikibooks run may start on
WikiStores ==
    {{}, {EarlierWikibook("Python Programming", TRUE, 1)},
         {Curated(EarlierWikibook("Art History", TRUE, 1), [faculty_id |-> "f1"])}}
    \cup (IF HasUriColumn
          THEN {{EarlierWikibook("Python Programming", FALSE, 1)},
                {DocumentedWikibook("Python Programming", 1)}}
          ELSE {})

\* the stores a Gutenberg run may start on
GutenbergStores ==
    {{}, {EarlierGutenbergBook(GutenbergCatalog[1], TRUE, 1)},
         {Curated(EarlierGutenbergBook(GutenbergCatalog[1], FALSE, 1),
                  [dewey_decimal |-> "823", faculty_id |-> "f1"])}}

MaxLimit == 2

\* two runs of the same script over the same source, at once or in sequence
InitTwoRuns ==
    /\ schemaVersion \in 0..2
    /\ credentials \in BOOLEAN
    /\ schedule \in {"interleaved", "sequential"}
    /\ apiPages = ShortListing
    /\ catalog = GutenbergCatalog
    /\ faculty = FacultyRows
    /\ \E kind \in {"wikibooks", "gutenberg"} :
          /\ run = [r \in Runs |-> NewRun(kind, 0)]
          /\ books \in (IF kind = "wikibooks" THEN WikiStores ELSE GutenbergStores)
    /\ hist = [r \in Runs |-> <<>>]
    /\ added = [r \in Runs |-> {}]
    /\ calls = <<>>

\* one Wikibooks run over the long listing and an empty migrated store, with
\* and without a limit
InitOneRun ==
    /\ schemaVersion \in 1..2
    /\ credentials = TRUE
    /\ schedule = "interleaved"
    /\ apiPages = LongListing
    /\ catalog = GutenbergCatalog
    /\ faculty = FacultyRows
    /\ \E limit \in 0..MaxLimit :
          run = [r \in Runs |-> IF r = 1 THEN NewRun("wikibooks", limit)
                                ELSE NewRun("none", 0)]
    /\ books = {}
    /\ hist = [r \in Runs |-> <<>>]
    /\ added = [r \in Runs |-> {}]
    /\ calls = <<>>

Init == InitTwoRuns \/ InitOneRun


Next == \E r \in Runs : WikiStep(r) \/ GutenbergStep(r)

Spec == Init /\ [][Next]_vars

WikiNext == \E r \in Runs : WikiStep(r)

\* a script that can take a step takes one: every request it awaits is
\* answered or fails, every timer fires
WikiLiveSpec == InitOneRun /\ [][WikiNext]_vars /\ \A r \in Runs : WF_vars(WikiStep(r))

\* the largest batchSize given to an item loop
MaxBatchSize == 3

\* one run of either script whose item loop is given a batchSize of its own;
\* the Wikibooks listing holds four book pages in two responses
InitBatch ==
    /\ schemaVersion \in 0..2
    /\ credentials = TRUE
    /\ schedule = "interleaved"
    /\ apiPages = <<SubSeq(LongListing[1], 1, 4), LongListing[2]>>
    /\ catalog = GutenbergCatalog
    /\ faculty = FacultyRows
    /\ \E kind \in {"wikibooks", "gutenberg"}, batchSize \in 1..MaxBatchSize :
          /\ run = [r \in Runs |-> IF r = 1
                                   THEN [batchSize |-> batchSize] @@ NewRun(kind, 0)
                                   ELSE NewRun("none", 0)]
          /\ books \in (IF kind = "wikibooks" THEN WikiStores ELSE GutenbergStores)
    /\ hist = [r \in Runs |-> <<>>]
    /\ added = [r \in Runs |-> {}]
    /\ calls = <<>>

BatchSpec == InitBatch /\ [][Next]_vars

(***************************************************************************)
(* The pure functions called on their own: matchFacultyToBook against a    *)
(* faculty table, the two getDeweyDecimal and isLikelyBook.                *)
(***************************************************************************)
MaxCalls == 2

\* a faculty table of n rows that match no title of the model
StaffRows(n) ==
    [k \in 1..n |-> [id |-> "s" \o ToString(k), name |-> "Staff",
                     department |-> "Registry"]]

\* the faculty tables: empty, the two curators, three curators two of whom
\* share a department, and one row more than the faculty query returns
FacultyInputs ==
    { <<>>, FacultyRows,
      << [id |-> "f1", name |-> "Ada Lovelace", department |-> "Computer Science"],
         [id |-> "f3", name |-> "Alan Turing", department |-> "Computer Science"],
         [id |-> "f4", name |-> "Emmy Noether", department |-> "Mathematics"] >>,
      StaffRows(FacultyQueryLimit) \o <<FacultyRows[2]>> }

MatchInputs ==
    {"Art History", "Computer Science Basics", "Lovelace Letters", "Math Puzzles", "Go"}

\* <<title, extract>>
DeweyInputs ==
    { <<"Art History", "">>, <<"Computer Music", "">>, <<"Music Theory", "For computer users.">>,
      <<"Cooking", "">>, <<"Cooking", "The chemistry and physics of food.">>,
      <<"POETRY", "">> }

\* <<Subject, Title>> of a catalog row
GutenbergDeweyInputs ==
    { <<"Fiction", "Pride and Prejudice">>, <<"Science Fiction", "The Time Machine">>,
      <<"", "A History of Rome">>, <<"Travel", "Philosophy of Walking">>, <<"", "Essays">> }

TitleInputs ==
    {"Python Programming", "Category:Programming", "category:programming",
     "Stub articles", "Go", "Lua", "User Guide", "Help:Contents"}

\* catalog texts: plain, with a quoted comma and a blank line, tab separated,
\* with a quoted line break, and empty
CsvInputs ==
    { "Text#,Title\n12345,Emma\n0,Notes,\n",
      "Text#,Title\n7,\"Hi, you\"\n\nx,No\n",
      "Text#\tTitle\n8\tA, b\n",
      "Text#,Title\n9,\"One\nTwo\"\n10,Next\n",
      "" }

\* no script runs; the store holds a faculty table
InitCalls ==
    /\ schemaVersion = 2
    /\ credentials = TRUE
    /\ schedule = "interleaved"
    /\ apiPages = <<>>
    /\ catalog = <<>>
    /\ faculty \in FacultyInputs
    /\ run = [r \in Runs |-> NewRun("none", 0)]
    /\ books = {}
    /\ hist = [r \in Runs |-> <<>>]
    /\ added = [r \in Runs |-> {}]
    /\ calls = <<>>

CallMatchFaculty ==
    /\ Len(calls) < MaxCalls
    /\ \E title \in MatchInputs :
          calls' = Append(calls, [fn |-> "matchFacultyToBook", args |-> <<title, "">>, result |->
                          matchFacultyToBook(faculty, title, "", NULL)])
    /\ UNCHANGED <<books, run, hist, added, schemaVersion, faculty, credentials,
                   apiPages, catalog, schedule>>

CallGetDeweyDecimal ==
    /\ Len(calls) < MaxCalls
    /\ \E a \in DeweyInputs :
          calls' = Append(calls, [fn |-> "getDeweyDecimal", args |-> a, result |->
                          getDeweyDecimal(a[1], a[2])])
    /\ UNCHANGED <<books, run, hist, added, schemaVersion, faculty, credentials,
                   apiPages, catalog, schedule>>

CallGutenbergDeweyDecimal ==
    /\ Len(calls) < MaxCalls
    /\ \E a \in GutenbergDeweyInputs :
          calls' = Append(calls, [fn |-> "getGutenbergDeweyDecimal", args |-> a, result |->
                          getGutenbergDeweyDecimal([Subject |-> a[1], Title |-> a[2]])])
    /\ UNCHANGED <<books, run, hist, added, schemaVersion, faculty, credentials,
                   apiPages, catalog, schedule>>

CallIsLikelyBook ==
    /\ Len(calls) < MaxCalls
    /\ \E title \in TitleInputs :
          calls' = Append(calls, [fn |-> "isLikelyBook", args |-> <<title>>, result |->
                          isLikelyBook(title)])
    /\ UNCHANGED <<books, run, hist, added, schemaVersion, faculty, credentials,
                   apiPages, catalog, schedule>>

CallParseCSV ==
    /\ Len(calls) < MaxCalls
    /\ \E csvText \in CsvInputs :
          calls' = Append(calls, [fn |-> "parseCSV", args |-> <<csvText>>, result |->
                          parseCSV(csvText)])
    /\ UNCHANGED <<books, run, hist, added, schemaVersion, faculty, credentials,
                   apiPages, catalog, schedule>>

CallNext ==
    \/ CallMatchFaculty \/ CallGetDeweyDecimal
    \/ CallGutenbergDeweyDecimal \/ CallIsLikelyBook \/ CallParseCSV

CallSpec == InitCalls /\ [][CallNext]_vars

(***************************************************************************)
(* improve-dewey-classifications.js: the stored Wikibooks are classified   *)
(* again by a remote endpoint, one awaited call per action.  The run's     *)
(* history entry of a book holds the answer it drew and the counter the    *)
(* loop incremented.                                                       *)
(***************************************************************************)
\* content.match(/\b(\d{3})\b/): the first three digits that stand between
\* two word boundaries, NULL when there are none
ExtractDewey(content) ==
    LET IsWordChar(c) == \/ Includes(UpperLetters, c) \/ Includes(LowerLetters, c)
                         \/ Includes(Digits, c) \/ c = "_"
        starts == {k \in 1..(Len(content) - 2) :
                      /\ \A n \in k..(k + 2) : IsDigit(CharAt(content, n))
                      /\ k = 1 \/ ~IsWordChar(CharAt(content, k - 1))
                      /\ k + 2 = Len(content) \/ ~IsWordChar(CharAt(content, k + 3))}
    IN  IF starts = {} THEN NULL
        ELSE SubSeq(content, CHOOSE k \in starts : \A m \in starts : k <= m,
                             (CHOOSE k \in starts : \A m \in starts : k <= m) + 2)

\* a classifier that falls back to "000" when the answer holds no code
classifyWithDefault(answer) ==
    IF answer.error \/ ExtractDewey(answer.content) = NULL THEN "000"
    ELSE ExtractDewey(answer.content)

\* classifyBookWithLLM once the endpoint has answered: the code it resolves
\* to, or "throw" when the promise rejects
classifyBookWithLLM(answer) ==
    LET inked   == {k \in 1..Len(answer.content) : CharAt(answer.content, k) # " "}
        content == IF inked = {} THEN ""
                   ELSE SubSeq(answer.content,
                               CHOOSE k \in inked : \A m \in inked : k <= m,
                               CHOOSE k \in inked : \A m \in inked : k >= m)
        dewey   == ExtractDewey(content)
    IN  IF answer.error \/ content = "" \/ dewey = NULL THEN "throw"
        ELSE IF ParseInt(dewey) # NaN /\ CharAt(ParseInt(dewey), 1) # "-"
                /\ Len(ParseInt(dewey)) <= 3
        THEN dewey
        ELSE "throw"

\* what the endpoint may answer: an error, or a text
ClassifierAnswers ==
    {[error |-> TRUE, content |-> ""]}
        \cup {[error |-> FALSE, content |-> c] : c \in {"500", " The code is 700.", "12345"}}

ImproveBatchSize == 5

\* a run that writes although --dry-run was given
WritesAlways(dryRun) == TRUE

\* if (!dryRun), line 314
WritesStore(dryRun) == ~dryRun

\* the titles of the stored Wikibooks in ascending order
TitleOrder ==
    << "Art History", "Linear Algebra", "Music Theory", "Organic Chemistry",
       "Python Programming", "World History" >>

\* the query of lines 268-277: the rows of source wikibooks by ascending
\* title, the first limit of them when a limit is given
SelectWikibooks(limit) ==
    LET rows == [k \in 1..Len(TitleOrder) |->
                    {b \in books : b.source = "wikibooks" /\ b.title = TitleOrder[k]}]
        all  == [k \in {n \in 1..Len(TitleOrder) : rows[n] # {}} |-> CHOOSE b \in rows[k] : TRUE]
        RECURSIVE Listed(_)
        Listed(k) == IF k > Len(TitleOrder) THEN <<>>
                     ELSE (IF k \in DOMAIN all THEN <<all[k]>> ELSE <<>>) \o Listed(k + 1)
    IN  IF limit = 0 THEN Listed(1) ELSE Slice0(Listed(1), limit)

\* the credentials check at module load, then the query of the books
ISelect(r) ==
    /\ run[r].kind = "improve" /\ run[r].pc = "start"
    /\ IF ~credentials THEN Exit(r, 1)
       ELSE \E failed \in BOOLEAN :
               IF failed THEN Exit(r, 1)
               ELSE IF Len(SelectWikibooks(run[r].limit)) = 0 THEN Exit(r, 0)
               ELSE Set(r, [pc |-> "classify", i |-> 0, j |-> 1,
                            pagesToProcess |-> SelectWikibooks(run[r].limit),
                            batch |-> Slice(SelectWikibooks(run[r].limit), 0, ImproveBatchSize)])
    /\ UNCHANGED <<env, books, hist, added>>

\* the endpoint answers for the current book: lines 299-312 and what
\* follows them up to the next awaited call
IClassify(r) ==
    /\ run[r].kind = "improve" /\ run[r].pc = "classify"
    /\ \E answer \in ClassifierAnswers :
          LET book     == CurrentPage(r)
              oldDewey == IF Truthy(book.dewey_decimal) THEN book.dewey_decimal ELSE "000"
              newDewey == classifyBookWithLLM(answer)
              entry    == [key |-> book.title, id |-> book.id, answer |-> answer,
                           old |-> oldDewey, new |-> newDewey]
          IN  IF newDewey = "throw"
              THEN /\ Set(r, [pc |-> "delay500", errors |-> run[r].errors + 1])
                   /\ hist' = [hist EXCEPT ![r] = Append(@, [counter |-> "errors"] @@ entry)]
              ELSE IF newDewey = oldDewey
              THEN /\ Set(r, [pc |-> "delay500", unchanged |-> run[r].unchanged + 1])
                   /\ hist' = [hist EXCEPT ![r] = Append(@, [counter |-> "unchanged"] @@ entry)]
              ELSE IF WritesStore(run[r].dryRun)
              THEN /\ Set(r, [pc |-> "update", newDewey |-> newDewey,
                               changed |-> Append(run[r].changed, entry)])
                   /\ UNCHANGED hist
              ELSE /\ Set(r, [pc |-> "delay500", updated |-> run[r].updated + 1,
                               changed |-> Append(run[r].changed, entry)])
                   /\ hist' = [hist EXCEPT ![r] = Append(@, [counter |-> "updated"] @@ entry)]
    /\ UNCHANGED <<env, books, added>>

\* the update of lines 315-322 is answered, with an error or without
IUpdate(r) ==
    /\ run[r].kind = "improve" /\ run[r].pc = "update"
    /\ LET entry == run[r].changed[Len(run[r].changed)]
       IN  \E failed \in BOOLEAN :
               IF failed
               THEN /\ Set(r, [pc |-> "delay500", errors |-> run[r].errors + 1])
                    /\ hist' = [hist EXCEPT ![r] = Append(@, [counter |-> "errors"] @@ entry)]
                    /\ UNCHANGED books
               ELSE /\ Set(r, [pc |-> "delay500", updated |-> run[r].updated + 1])
                    /\ hist' = [hist EXCEPT ![r] = Append(@, [counter |-> "updated"] @@ entry)]
                    /\ books' = {IF b.id = entry.id
                                 THEN [b EXCEPT !.dewey_decimal = run[r].newDewey]
                                 ELSE b : b \in books}
    /\ UNCHANGED <<env, added>>

\* the 500 ms wait after a book, then the next book, the end of the batch
\* or the summary
IDelay500(r) ==
    /\ run[r].kind = "improve" /\ run[r].pc = "delay500"
    /\ IF run[r].j < Len(run[r].batch)
       THEN Set(r, [pc |-> "classify", j |-> run[r].j + 1])
       ELSE IF run[r].i + ImproveBatchSize < Len(run[r].pagesToProcess)
       THEN Set(r, [pc |-> "delay2000"])
       ELSE Set(r, [pc |-> "done", exitCode |-> 0])
    /\ UNCHANGED <<env, books, hist, added>>

\* the 2000 ms wait between batches, then the head of the next batch
IDelay2000(r) ==
    /\ run[r].kind = "improve" /\ run[r].pc = "delay2000"
    /\ Set(r, [pc |-> "classify", i |-> run[r].i + ImproveBatchSize, j |-> 1,
                batch |-> Slice(run[r].pagesToProcess, run[r].i + ImproveBatchSize,
                                run[r].i + 2 * ImproveBatchSize)])
    /\ UNCHANGED <<env, books, hist, added>>

ImproveStep(r) ==
    \/ ISelect(r) \/ IClassify(r) \/ IUpdate(r) \/ IDelay500(r) \/ IDelay2000(r)

\* the six books of the long listing as an earlier run stored them, one of
\* them without a classification, and a Gutenberg book
ImproveStore ==
    {IF k = 2 THEN Curated(EarlierWikibook(TitleOrder[k], TRUE, k), [dewey_decimal |-> NULL])
              ELSE EarlierWikibook(TitleOrder[k], TRUE, k) : k \in 1..Len(TitleOrder)}
        \cup {EarlierGutenbergBook(GutenbergCatalog[1], TRUE, Len(TitleOrder) + 1)}

\* one reclassification run, with --dry-run or without, with --limit or without
InitImprove ==
    /\ schemaVersion = 2
    /\ credentials \in BOOLEAN
    /\ schedule = "interleaved"
    /\ apiPages = <<>>
    /\ catalog = GutenbergCatalog
    /\ faculty = FacultyRows
    /\ books = ImproveStore
    /\ \E dryRun \in BOOLEAN, limit \in 0..MaxLimit :
          run = [r \in Runs |->
                    IF r = 1
                    THEN [dryRun |-> dryRun, updated |-> 0, unchanged |-> 0,
                          changed |-> <<>>, newDewey |-> ""] @@ NewRun("improve", limit)
                    ELSE NewRun("none", 0)]
    /\ hist = [r \in Runs |-> <<>>]
    /\ added = [r \in Runs |-> {}]
    /\ calls = <<>>

ImproveSpec == InitImprove /\ [][\E r \in Runs : ImproveStep(r)]_vars

(***************************************************************************)
(* Vocabulary of the properties.                                           *)
(***************************************************************************)
\* the rows that were in the store before any run started
InitialRows == {b \in books : \A r \in Runs : b.id \notin added[r]}

\* the rows stored for the item of run r with the given key (a page title,
\* or the Text# of a catalog row)
RowsFor(r, key) ==
    IF run[r].kind = "wikibooks"
    THEN {b \in books : b.source = "wikibooks" /\ b.title = key}
    ELSE {b \in books : b.gutenberg_id = ParseInt(key)}

AbsentInitially(r, key) == RowsFor(r, key) \cap InitialRows = {}

\* every request made for the item was answered normally
Clean(e) == e.details \in {"ok", "invalid"} /\ e.error # OtherStoreMessage

Entries(r) == {hist[r][k] : k \in 1..Len(hist[r])}

WikiRuns == {r \in Runs : run[r].kind = "wikibooks"}

GutenbergRuns == {r \in Runs : run[r].kind = "gutenberg"}

BothDone == \A r \in Runs : run[r].pc = "done"

\* the upsert of record e1.key ran twice in sequence, first as e1 then as e2,
\* and left one stored record: inserted by the first, found by the second
InsertedThenFound(e1, e2) ==
    /\ e1.result = "data" /\ e1.counter = "inserted"
    /\ e2.via # "" /\ e2.attempts = 0 /\ e2.counter = "skipped"
    /\ Cardinality(RowsFor(1, e1.key)) = 1

\* the pairs <<first call, second call>> of a sequential double run on records
\* absent from the store, with every request answered normally
SequentialPairs ==
    IF schedule = "sequential" /\ BothDone
    THEN {<<hist[1][k], hist[2][k]>> : k \in
             {k \in 1..Len(hist[1]) :
                 /\ k <= Len(hist[2])
                 /\ hist[1][k].key = hist[2][k].key
                 /\ Clean(hist[1][k]) /\ Clean(hist[2][k])
                 /\ AbsentInitially(1, hist[1][k].key)}}
    ELSE {}

DuplicateIdentity ==
    \E a, b \in books :
        /\ a.id # b.id
        /\ \/ a.book_uri # NULL /\ a.book_uri = b.book_uri
           \/ a.source # NULL /\ a.source_id # NULL
              /\ a.source = b.source /\ a.source_id = b.source_id

\* the pairs of entries the two runs hold for one record absent at the start
RacedPairs ==
    {p \in Entries(1) \X Entries(2) :
        /\ p[1].key = p[2].key
        /\ Clean(p[1]) /\ Clean(p[2])
        /\ AbsentInitially(1, p[1].key)}

C2_NoDuplicatesOneWinner ==
    (schemaVersion = 2 /\ WikiRuns = Runs) =>
        /\ ~DuplicateIdentity
        /\ \A p \in RacedPairs :
              {p[1].counter, p[2].counter} = {"inserted", "skipped"}

\* both runs passed the existence check before either inserted
C2_Witness ==
    /\ schemaVersion = 2 /\ WikiRuns = Runs /\ schedule = "interleaved"
    /\ \E p \in RacedPairs : p[1].attempts >= 1 /\ p[2].attempts >= 1

(***************************************************************************)
(* C3 as stated: on the schema left by add_book_source_fields.sql, no      *)
(* interleaving of two Gutenberg runs leaves two rows with the same        *)
(* gutenberg_id.                                                           *)
(***************************************************************************)
C3_NoDuplicateGutenbergId ==
    (HasSourceColumn /\ GutenbergRuns = Runs) =>
        \A a, b \in books :
            (a.gutenberg_id # NULL /\ a.gutenberg_id = b.gutenberg_id) => a.id = b.id

(***************************************************************************)
(* C4: an insertWikibook call that ends on a uniqueness violation is       *)
(* counted as skipped, not as inserted or as an error, and adds no row.    *)
(***************************************************************************)
DuplicateEntries(r) == {e \in Entries(r) : e.attempts >= 1 /\ IsDuplicateMessage(e.error)}

C4_DuplicateIsSkipped ==
    \A r \in WikiRuns :
        /\ \A e \in DuplicateEntries(r) :
              /\ e.counter = "skipped"
              /\ \A b \in RowsFor(r, e.key) : b.id \notin added[r]
        /\ run[r].inserted + run[r].errors
              = Cardinality({k \in 1..Len(hist[r]) : hist[r][k].counter # "skipped"})

C4_Witness ==
    \E r \in WikiRuns : \E e \in DuplicateEntries(r) :
        e.counter = "skipped" /\ run[r].inserted = 0 /\ run[r].errors = 0

(***************************************************************************)
(* C5 as stated: an insert the store rejects for a reason other than a     *)
(* uniqueness violation or a missing book_uri column is counted in errors. *)
(***************************************************************************)
C5_StoreErrorIsError ==
    \A r \in WikiRuns : \A e \in Entries(r) :
        e.error = OtherStoreMessage => e.counter = "errors"

(***************************************************************************)
(* C6: the inserted counter of a run equals the number of rows that run    *)
(* has added to the store, at every point and so at the summary.           *)
(***************************************************************************)
C6_InsertedMatchesStore ==
    \A r \in Runs :
        /\ run[r].inserted = Cardinality(added[r])
        /\ added[r] \subseteq {b.id : b \in books}

\* two finished runs that both inserted, one of them after a store error,
\* the other after a uniqueness violation
C6_Witness ==
    /\ BothDone
    /\ \A r \in Runs : run[r].inserted >= 1
    /\ \E r \in Runs : \E e \in Entries(r) : e.error = OtherStoreMessage
    /\ \E r \in Runs : \E e \in Entries(r) : IsDuplicateMessage(e.error)

(***************************************************************************)
(* C7: in a Wikibooks run every item of the list to process reaches a      *)
(* terminal outcome, whatever the outcomes of the items before it: once    *)
(* the list is fixed the run ends with one history entry per item and      *)
(* inserted + skipped + errors equal to the length of the list.            *)
(***************************************************************************)
AllItemsProcessed(r) ==
    /\ run[r].pc = "done"
    /\ Len(hist[r]) = Len(run[r].pagesToProcess)
    /\ \A k \in 1..Len(hist[r]) : hist[r][k].key = run[r].pagesToProcess[k]
    /\ run[r].inserted + run[r].skipped + run[r].errors = Len(run[r].pagesToProcess)

C7_EveryItemTerminates ==
    \A r \in Runs : (run[r].pc = "batch" /\ run[r].i = 0) ~> AllItemsProcessed(r)

\* a run that ended after a failed details request, a missing page, a store
\* error and a success, the failures before the success
C7_Witness ==
    \E r \in Runs :
        /\ AllItemsProcessed(r)
        /\ \E a, b, c, d \in 1..Len(hist[r]) :
              /\ a < d /\ b < d /\ c < d
              /\ hist[r][a].details = "error"
              /\ hist[r][b].details = "missing"
              /\ hist[r][c].error = OtherStoreMessage
              /\ hist[r][d].result = "data"

(***************************************************************************)
(* C8 as stated: a failed listing request does not end the run, which      *)
(* still goes on to process items.                                         *)
(***************************************************************************)
C8_ListingFailureTolerated ==
    \A r \in Runs : run[r].listingFailed => run[r].pc # "exited"

(***************************************************************************)
(* C9: a page whose only stored trace is a legacy row (source wikibooks,   *)
(* its source_id, no book_uri) is found by the fallback lookup after the   *)
(* book_uri lookup misses: no insert is issued and the item is skipped.    *)
(***************************************************************************)
HasLegacyRow(key) ==
    \E b \in InitialRows :
        /\ b.source = "wikibooks" /\ b.source_id = generateWikibookSourceId(key)
        /\ b.book_uri = NULL

C9_LegacyRowFound ==
    \A r \in WikiRuns : \A e \in Entries(r) :
        (e.details = "ok" /\ HasLegacyRow(e.key)) =>
            /\ e.via = "source" /\ e.attempts = 0 /\ e.counter = "skipped"
            /\ \A b \in RowsFor(r, e.key) : b.id \notin added[r]

\* on a store that has the book_uri column
C9_Witness ==
    /\ HasUriColumn
    /\ \E r \in WikiRuns : \E e \in Entries(r) :
          e.details = "ok" /\ HasLegacyRow(e.key) /\ e.via = "source"

(***************************************************************************)
(* C10: on a store without the book_uri column every insertWikibook call   *)
(* that reaches the insert issues it twice, the second time without        *)
(* book_uri; when the store accepts the retry the item is counted as       *)
(* inserted and the store holds exactly one record for it, as happens for  *)
(* every new record when the store answers normally and no other run       *)
(* inserts it first.                                                       *)
(***************************************************************************)
C10_RetryWithoutUriColumn ==
    (schemaVersion = 1) =>
        \A r \in WikiRuns : \A e \in Entries(r) :
            /\ e.attempts >= 1 =>
                  /\ e.attempts = 2
                  /\ e.error = "" =>
                        /\ e.counter = "inserted"
                        /\ Cardinality(RowsFor(r, e.key)) = 1
                        /\ \A b \in RowsFor(r, e.key) : b.id \in added[r] /\ b.book_uri = NULL
                  /\ e.error # "" => IsDuplicateMessage(e.error) \/ e.error = OtherStoreMessage
            /\ (r = 1 /\ schedule = "sequential" /\ Clean(e) /\ e.details = "ok"
                  /\ AbsentInitially(r, e.key)) => e.counter = "inserted"

C10_Witness ==
    /\ schemaVersion = 1
    /\ \E r \in WikiRuns : \E e \in Entries(r) :
          e.attempts = 2 /\ e.counter = "inserted" /\ Cardinality(RowsFor(r, e.key)) = 1

(***************************************************************************)
(* C11: no step of an upsert changes the title, author, classification or  *)
(* curator of a row already in the store (and no row is ever removed); in  *)
(* particular a stored curator survives a run that would match another.    *)
(***************************************************************************)
C11_ExistingRecordUnchanged ==
    [][\A b \in books : \E c \in books' :
          /\ c.id = b.id
          /\ c.title = b.title /\ c.author = b.author
          /\ c.dewey_decimal = b.dewey_decimal /\ c.faculty_id = b.faculty_id]_vars

\* a run found a stored page whose curator differs from the one matchFacultyToBook
\* gives for it now
C11_Witness ==
    \E r \in WikiRuns : \E e \in Entries(r) :
        /\ e.via # "" /\ e.counter = "skipped"
        /\ \E b \in RowsFor(r, e.key) \cap InitialRows :
              /\ Truthy(b.faculty_id)
              /\ matchFacultyToBook(faculty, e.key, ExtractOf(e.key), NULL)
                    \notin {NULL, b.faculty_id}

(***************************************************************************)
(* C12 as stated: when the page "Python Programming" is stored with uri    *)
(* "wikibooks://Python_Programming", a run that ingests the page (every    *)
(* request answered normally) counts it as skipped and adds no row for it. *)
(***************************************************************************)
C12_StoredPageSkipped ==
    \A r \in WikiRuns : \A e \in Entries(r) :
        (/\ e.key = "Python Programming" /\ e.details = "ok" /\ Clean(e)
         /\ \E b \in InitialRows :
               b.title = e.key /\ b.book_uri = "wikibooks://Python_Programming")
        => /\ e.counter = "skipped"
           /\ \A b \in RowsFor(r, e.key) : b.id \notin added[r]

(***************************************************************************)
(* C13 as stated: on a store that has the source_id and book_uri columns,  *)
(* the row a Gutenberg run inserts for a catalog row with numeric id N has *)
(* source_id the decimal form of N and book_uri "gutenberg://" followed by *)
(* it (and classification "800" for id 12345, subject Fiction).            *)
(***************************************************************************)
C13_InsertedWithUri ==
    \A r \in GutenbergRuns : \A e \in Entries(r) :
        (HasUriColumn /\ e.result = "data") =>
            \E b \in books :
                /\ b.id \in added[r] /\ b.gutenberg_id = ParseInt(e.key)
                /\ b.source_id = ParseInt(e.key)
                /\ b.book_uri = generateBookUri("gutenberg", ParseInt(e.key))
                /\ e.key = "12345" => b.dewey_decimal = "800"


(***************************************************************************)
(* The matcher, the classifiers and the title filter called on their own.  *)
(***************************************************************************)
CallsOf(fn) == {i \in 1..Len(calls) : calls[i].fn = fn}

\* the score of every row of rows for the book of a matcher call
CuratorScores(rows, args) ==
    [k \in 1..Len(rows) |->
        FacultyScore(rows[k], ToLowerCase(args[1] \o " " \o args[2] \o " "), args[1])]

\* the rows the faculty query returns
Queried(rows) == SubSeq(rows, 1, IF Len(rows) > FacultyQueryLimit
                                 THEN FacultyQueryLimit ELSE Len(rows))

\* C14: whenever some curator record of the store scores at least the
\* threshold for a book, the matcher returns a curator whose score is the
\* maximum over all the curator records of the store, however many there are.
C14_BestOverFullSet ==
    \A i \in CallsOf("matchFacultyToBook") :
        LET score == CuratorScores(faculty, calls[i].args)
        IN  (\E k \in DOMAIN score : score[k] >= MatchThreshold) =>
                \E k \in DOMAIN score :
                    /\ faculty[k].id = calls[i].result
                    /\ \A j \in DOMAIN score : score[j] <= score[k]

\* C15: over the curators the matcher enumerates, the result is none when
\* no one scores at least 5; otherwise it is the id of the first curator,
\* in enumeration order, whose score is the maximum (a later curator with
\* the same score does not replace it).
C15_FirstBestOrNone ==
    \A i \in CallsOf("matchFacultyToBook") :
        LET rows  == Queried(faculty)
            score == CuratorScores(rows, calls[i].args)
        IN  IF \A k \in DOMAIN score : score[k] < 5
            THEN calls[i].result = NULL
            ELSE \E k \in DOMAIN score :
                    /\ rows[k].id = calls[i].result
                    /\ \A j \in DOMAIN score : score[j] <= score[k]
                    /\ \A j \in 1..(k - 1) : score[j] < score[k]

\* one call answered with the first of two curators of equal best score,
\* another answered none although a curator scored above zero
C15_Witness ==
    /\ \E i \in CallsOf("matchFacultyToBook") :
          LET score == CuratorScores(faculty, calls[i].args)
          IN  \E k, j \in DOMAIN score :
                 /\ k < j /\ score[k] = score[j] /\ score[k] >= 5
                 /\ \A n \in DOMAIN score : score[n] <= score[k]
                 /\ calls[i].result = faculty[k].id
    /\ \E i \in CallsOf("matchFacultyToBook") :
          LET score == CuratorScores(faculty, calls[i].args)
          IN  /\ calls[i].result = NULL
              /\ \E k \in DOMAIN score : score[k] \in 1..4

\* the entries of the Wikibooks table whose keyword occurs in the lowercased
\* title and extract
WikibookHits(args) ==
    {k \in 1..Len(DEWEY_MAP) :
        Includes(ToLowerCase(args[1] \o " " \o args[2]), DEWEY_MAP[k][1])}

\* the entries of the Gutenberg table whose lowercased keyword occurs in the
\* lowercased subject or in the lowercased title
GutenbergHits(args) ==
    {k \in 1..Len(GUTENBERG_DEWEY_MAP) :
        \/ Includes(ToLowerCase(args[1]), ToLowerCase(GUTENBERG_DEWEY_MAP[k][1]))
        \/ Includes(ToLowerCase(args[2]), ToLowerCase(GUTENBERG_DEWEY_MAP[k][1]))}

First(hits) == CHOOSE k \in hits : \A j \in hits : k <= j

\* C16: each classifier returns the code of the first entry of its table, in
\* table order, whose keyword occurs in the lowercased text, and its default
\* ("000" for Wikibooks, "800" for Gutenberg) when no keyword occurs; the
\* result is a code of the table or the default, and two calls with the same
\* arguments give the same result.
C16_FirstKeywordOrDefault ==
    /\ \A i \in CallsOf("getDeweyDecimal") :
          /\ calls[i].result = IF WikibookHits(calls[i].args) = {} THEN "000"
                               ELSE DEWEY_MAP[First(WikibookHits(calls[i].args))][2]
          /\ calls[i].result \in {DEWEY_MAP[k][2] : k \in 1..Len(DEWEY_MAP)} \cup {"000"}
    /\ \A i \in CallsOf("getGutenbergDeweyDecimal") :
          /\ calls[i].result = IF GutenbergHits(calls[i].args) = {} THEN "800"
                               ELSE GUTENBERG_DEWEY_MAP[First(GutenbergHits(calls[i].args))][2]
          /\ calls[i].result \in {GUTENBERG_DEWEY_MAP[k][2] :
                                      k \in 1..Len(GUTENBERG_DEWEY_MAP)} \cup {"800"}
    /\ \A i, j \in 1..Len(calls) :
          (calls[i].fn = calls[j].fn /\ calls[i].args = calls[j].args)
              => calls[i].result = calls[j].result

\* a Wikibooks call and a Gutenberg call whose text holds keywords of two
\* different codes, each answered with the code of the earlier entry
C16_Witness ==
    /\ \E i \in CallsOf("getDeweyDecimal") :
          \E k, j \in WikibookHits(calls[i].args) :
              /\ k < j /\ DEWEY_MAP[k][2] # DEWEY_MAP[j][2]
              /\ calls[i].result = DEWEY_MAP[k][2]
    /\ \E i \in CallsOf("getGutenbergDeweyDecimal") :
          \E k, j \in GutenbergHits(calls[i].args) :
              /\ k < j /\ GUTENBERG_DEWEY_MAP[k][2] # GUTENBERG_DEWEY_MAP[j][2]
              /\ calls[i].result = GUTENBERG_DEWEY_MAP[k][2]

AdministrativeMarkers ==
    {"category:", "template:", "help:", "user:", "file:", "mediawiki:",
     "disambiguation", "redirect", "stub", "book:", "module:"}

HasMarker(title) ==
    \E lower \in {ToLowerCase(title)} :
        \E m \in AdministrativeMarkers : Includes(lower, m)

\* C17: isLikelyBook answers FALSE exactly for the titles whose lowercased
\* form contains an administrative marker or that have fewer than 3
\* characters, TRUE for all others; it answers every title, the same way on
\* every call.
C17_RejectsMarkedOrShort ==
    /\ \A i \in CallsOf("isLikelyBook") :
          /\ calls[i].result \in BOOLEAN
          /\ calls[i].result = ~(HasMarker(calls[i].args[1]) \/ Len(calls[i].args[1]) < 3)
    /\ \A i, j \in CallsOf("isLikelyBook") :
          calls[i].args = calls[j].args => calls[i].result = calls[j].result

\* a title rejected for a marker it holds in capitals, and a title of two
\* characters rejected for its length alone
C17_Witness ==
    /\ \E i \in CallsOf("isLikelyBook") :
          /\ ~calls[i].result /\ HasMarker(calls[i].args[1])
          /\ \A m \in AdministrativeMarkers : ~Includes(calls[i].args[1], m)
    /\ \E i \in CallsOf("isLikelyBook") :
          /\ ~calls[i].result /\ ~HasMarker(calls[i].args[1])
          /\ Len(calls[i].args[1]) = 2

Rejected(title) == HasMarker(title) \/ Len(title) < 3

\* the titles of the catalog listings, and those of them the filter rejects
TitlesOf(listing) ==
    UNION {{listing[k][n] : n \in 1..Len(listing[k])} : k \in 1..Len(listing)}

ListedTitles == TitlesOf(ShortListing) \cup TitlesOf(LongListing)

RejectedTitles == {title \in ListedTitles : Rejected(title)}

\* the titles run r has selected, requested details of, looked up or inserted
Touched(r) ==
    {run[r].pagesToProcess[k] : k \in 1..Len(run[r].pagesToProcess)}
        \cup {run[r].batch[k] : k \in 1..Len(run[r].batch)}
        \cup ({run[r].details.title} \ {""})
        \cup {e.key : e \in Entries(r)}
        \cup {b.title : b \in {c \in books : c.id \in added[r]}}

\* C18: in a Wikibooks run no page whose title the filter rejects is among
\* the pages to process, has its details requested, is looked up in the
\* store, or is inserted.
C18_RejectedPageUntouched ==
    \A r \in WikiRuns : Touched(r) \subseteq ListedTitles \ RejectedTitles

\* a finished run whose listing held a rejected title and that inserted a page
C18_Witness ==
    \E r \in WikiRuns :
        /\ run[r].pc = "done" /\ run[r].inserted >= 1
        /\ \E k \in 1..Len(run[r].allPages) : run[r].allPages[k] \in RejectedTitles

\* run r has issued no catalog request, no store lookup and no store write
NothingDone(r) ==
    /\ run[r].fetched = 0 /\ run[r].allPages = <<>> /\ ~run[r].listingFailed
    /\ run[r].pagesToProcess = <<>>
    /\ hist[r] = <<>> /\ added[r] = {}

\* C19: a run without store credentials, and a Wikibooks run against a store
\* without the source column, goes no further than its configuration checks:
\* it issues no catalog request and no store write, and when it ends it has
\* exited with a non-zero status.
C19_ConfigurationErrorExits ==
    \A r \in Runs :
        (\/ ~credentials
         \/ r \in WikiRuns /\ ~HasSourceColumn)
        => /\ run[r].pc \in {"start", "schemaSource", "exited"}
           /\ NothingDone(r)
           /\ Finished(r) => run[r].pc = "exited" /\ run[r].exitCode # 0

\* with credentials, a Wikibooks run against the original schema has exited
\* with status 1 at its schema check
C19_Witness ==
    /\ credentials /\ ~HasSourceColumn
    /\ \E r \in WikiRuns : run[r].pc = "exited" /\ run[r].exitCode = 1 /\ NothingDone(r)

\* the pages of the first n listing responses, in request order
RECURSIVE Concatenated(_, _)
Concatenated(responses, n) ==
    IF n = 0 THEN <<>> ELSE Concatenated(responses, n - 1) \o responses[n]

\* C20: without a limit, fetchWikibooks holds after each response the pages
\* of all responses so far in request order and asks for the page after the
\* token it was last given; it returns, once a response has no token, the
\* pages of all responses concatenated; and a fetch that has begun ends
\* (by returning, or by a request that fails) since the chain of tokens is
\* finite.
C20_FollowsTokensToEnd ==
    /\ [](\A r \in WikiRuns : run[r].limit = 0 =>
            /\ run[r].pc \in {"fetch", "fetchDelay"} =>
                   run[r].allPages = Concatenated(apiPages, run[r].continueToken)
            /\ run[r].pc = "filter" =>
                   run[r].allPages = Concatenated(apiPages, Len(apiPages)))
    /\ \A r \in Runs :
          (run[r].kind = "wikibooks" /\ run[r].limit = 0 /\ run[r].pc = "fetch")
              ~> (run[r].pc = "filter" \/ run[r].listingFailed)

\* an unlimited fetch over two responses has returned all eight pages
C20_Witness ==
    \E r \in WikiRuns :
        /\ run[r].limit = 0 /\ run[r].pc = "filter" /\ Len(apiPages) = 2
        /\ run[r].allPages = apiPages[1] \o apiPages[2]
        /\ Len(run[r].allPages) = 8

\* every page of the source, in the order the source lists them
SourcePages == Concatenated(apiPages, Len(apiPages))

Processed(r) == run[r].inserted + run[r].skipped + run[r].errors

KeysOf(r) == [k \in 1..Len(hist[r]) |-> hist[r][k].key]

ImproveRuns == {r \in Runs : run[r].kind = "improve"}

\* the classification the answer of entry e proposes, NULL when it holds none
Proposed(e) == IF e.answer.error THEN NULL ELSE ExtractDewey(e.answer.content)

Reported(r, e) ==
    \E k \in 1..Len(run[r].changed) :
        /\ run[r].changed[k].key = e.key
        /\ run[r].changed[k].old = e.old /\ run[r].changed[k].new = Proposed(e)

\* C22: in a dry run the store stays what it was before the run, and every
\* book whose answer proposes a classification other than its stored one
\* is in the list of changes the run reports.
C22_DryRunWritesNothing ==
    \A r \in ImproveRuns : run[r].dryRun =>
        /\ books = ImproveStore
        /\ \A e \in Entries(r) :
              (Proposed(e) # NULL /\ Proposed(e) # e.old) => Reported(r, e)

\* a finished dry run that reported changes for at least two books
C22_Witness ==
    \E r \in ImproveRuns :
        /\ run[r].dryRun /\ run[r].pc = "done"
        /\ Len(run[r].changed) >= 2
        /\ \E e \in Entries(r) : Proposed(e) # NULL /\ Proposed(e) # e.old

\* the row of the store with the id of entry e carries the classification
\* it had when run r selected it
Untouched(r, e) ==
    \E b \in books : \E k \in 1..Len(run[r].pagesToProcess) :
        /\ b.id = e.id /\ run[r].pagesToProcess[k].id = e.id
        /\ b.dewey_decimal = run[r].pagesToProcess[k].dewey_decimal

\* C23: a book whose classification failed (the endpoint answered with an
\* error, or its answer holds no three-digit token) keeps its stored
\* classification and is counted as an error, and the run goes on: it does
\* not exit, and it ends with every selected book processed.
C23_FailedClassificationKept ==
    \A r \in ImproveRuns :
        /\ \A e \in Entries(r) :
              Proposed(e) = NULL => e.counter = "errors" /\ Untouched(r, e)
        /\ hist[r] # <<>> => run[r].pc # "exited"
        /\ run[r].pc = "done" => Len(hist[r]) = Len(run[r].pagesToProcess)
        /\ run[r].errors = Cardinality({k \in 1..Len(hist[r]) : hist[r][k].counter = "errors"})

\* a finished run in which a book whose answer held no code was followed by
\* a book that was updated
C23_Witness ==
    \E r \in ImproveRuns :
        /\ run[r].pc = "done" /\ ~run[r].dryRun
        /\ \E k \in 1..(Len(hist[r]) - 1) :
              /\ ~hist[r][k].answer.error /\ Proposed(hist[r][k]) = NULL
              /\ hist[r][k].counter = "errors"
              /\ hist[r][k + 1].counter = "updated"

(***************************************************************************)
(* The catalog parser against a parse of the whole text that knows quotes. *)
(***************************************************************************)
\* the records of text, each the sequence of its fields: a delimiter ends a
\* field and a line break ends a record only outside double quotes
QuoteAwareRecords(text, delimiter) ==
    LET RECURSIVE Scan(_, _, _, _, _)
        Scan(j, records, values, current, inQuotes) ==
            IF j > Len(text)
            THEN IF values = <<>> /\ current = "" THEN records
                 ELSE Append(records, Append(values, CleanField(current)))
            ELSE IF CharAt(text, j) = "\""
            THEN Scan(j + 1, records, values, current, ~inQuotes)
            ELSE IF CharAt(text, j) = delimiter /\ ~inQuotes
            THEN Scan(j + 1, records, Append(values, CleanField(current)), "", inQuotes)
            ELSE IF CharAt(text, j) = "\n" /\ ~inQuotes
            THEN Scan(j + 1, Append(records, Append(values, CleanField(current))),
                      <<>>, "", inQuotes)
            ELSE Scan(j + 1, records, values, current \o CharAt(text, j), inQuotes)
    IN  Scan(1, <<>>, <<>>, "", FALSE)

\* the records after the header whose Text# field is a number
ExpectedRecords(text) ==
    LET delimiter == IF Includes(text, "\t") THEN "\t" ELSE ","
        records   == QuoteAwareRecords(text, delimiter)
        textCol   == CHOOSE k \in 1..Len(records[1]) : records[1][k] = "Text#"
    IN  IF records = <<>> THEN <<>>
        ELSE [headers |-> records[1],
              rows |-> SelectSeq(SubSeq(records, 2, Len(records)),
                                 LAMBDA values : /\ Len(values) >= textCol
                                                 /\ ParseInt(values[textCol]) # NaN)]

\* C24: the books parseCSV returns are the records of a quote-aware parse
\* of the whole text, field by field: a quoted field holding the delimiter
\* or a line break is one field of one row.
C24_QuoteAwareParse ==
    \A i \in CallsOf("parseCSV") :
        LET expected == ExpectedRecords(calls[i].args[1])
            result   == calls[i].result
        IN  IF expected = <<>> THEN result = <<>>
            ELSE /\ Len(result) = Len(expected.rows)
                 /\ \A n \in 1..Len(result) : \A k \in 1..Len(expected.headers) :
                       result[n][expected.headers[k]] =
                           IF k <= Len(expected.rows[n]) THEN expected.rows[n][k] ELSE ""

(***************************************************************************)
(* The order and the pacing of the items of a run.                         *)
(***************************************************************************)
IngestionRuns == WikiRuns \cup GutenbergRuns

\* the pcs at which an item of the run is being processed
ItemPcs ==
    {"details", "delay300", "lookupUri", "lookupSource", "match", "insertWithUri",
     "insertWithoutUri", "lookup", "updateCover", "insert"}

\* the key of the k-th item the source yielded to run r
SourceKey(r, k) ==
    IF r \in WikiRuns THEN run[r].pagesToProcess[k] ELSE run[r].pagesToProcess[k]["Text#"]

\* C25: the items a run has finished are the first items the source
\* yielded, in that order, and the one item being processed is the item
\* right after them: no item starts before the one before it has finished.
C25_OneItemAtATime ==
    \A r \in IngestionRuns :
        /\ Len(hist[r]) <= Len(run[r].pagesToProcess)
        /\ \A k \in 1..Len(hist[r]) : hist[r][k].key = SourceKey(r, k)
        /\ run[r].pc \in ItemPcs =>
              /\ run[r].i + run[r].j = Len(hist[r]) + 1
              /\ r \in WikiRuns => CurrentPage(r) = SourceKey(r, Len(hist[r]) + 1)

\* a run over two batches has finished its six items
C25_Witness ==
    \E r \in WikiRuns :
        /\ run[r].pc = "done" /\ Len(hist[r]) = 6
        /\ Len(run[r].pagesToProcess) > WikiBatchSize

\* C26: the step that ends an item never leaves the run at the first
\* network call of the next item (a delay step comes first, whatever the
\* item came to), and the run reaches the head of a batch that follows
\* another only from the delay between batches.
C26_DelayBetweenItems ==
    [][\A r \in IngestionRuns :
          /\ Len(hist'[r]) > Len(hist[r]) => run'[r].pc \notin {"details", "lookup"}
          /\ (/\ run'[r].pc = "batch" /\ run'[r].i > run[r].i
              /\ run'[r].i < Len(run'[r].pagesToProcess))
             => run[r].pc = "batchDelay"]_vars

(***************************************************************************)
(* insertBook on a record the store already holds.                         *)
(***************************************************************************)
\* row c is row b but for a cover_url that b lacked
CoverBackfilled(b, c) ==
    /\ ~Truthy(b.cover_url) /\ Truthy(c.cover_url)
    /\ \A column \in DOMAIN b \ {"cover_url"} : c[column] = b[column]

\* C27: the step in which a Gutenberg run ends an item that its lookup
\* found in the store inserts no row and counts the item as skipped; it
\* leaves the store as it was when the found row has a cover_url, and
\* otherwise changes nothing but the cover_url of the found row.
C27_ExistingOnlyCoverBackfilled ==
    [][\A r \in GutenbergRuns :
          (Len(hist'[r]) > Len(hist[r]) /\ hist'[r][Len(hist'[r])].via = "gutenberg_id") =>
              LET e     == hist'[r][Len(hist'[r])]
                  found == {b \in books : b.gutenberg_id = ParseInt(e.key)}
              IN  /\ e.counter = "skipped" /\ e.attempts = 0
                  /\ added' = added
                  /\ {c.id : c \in books'} = {b.id : b \in books}
                  /\ \A b \in books \ found : b \in books'
                  /\ \A b \in found :
                        IF Truthy(b.cover_url) THEN b \in books'
                        ELSE \E c \in books' : c.id = b.id /\ CoverBackfilled(b, c)]_vars

\* a run found the curated row that had no cover: the row now has one and
\* still carries its curated classification
C27_Witness ==
    \E r \in GutenbergRuns : \E e \in Entries(r) :
        /\ e.via = "gutenberg_id" /\ e.counter = "skipped"
        /\ \E b \in InitialRows :
              /\ b.gutenberg_id = ParseInt(e.key)
              /\ b.dewey_decimal = "823" /\ Truthy(b.cover_url)

\* the row of store a .single() lookup resolves with: the only match or none
Single(store, filter) ==
    LET hit == {b \in store : \A c \in DOMAIN filter : b[c] = filter[c]}
    IN  IF DOMAIN filter \subseteq Columns /\ Cardinality(hit) = 1 THEN hit ELSE {}

\* one item put into store with every request answered and no batch around
\* it: the store afterwards and the counter the item goes to
PutWikibook(title, store) ==
    LET sourceId == generateWikibookSourceId(title)
        bookUri  == generateBookUri("wikibooks", sourceId)
        bookData == WikibookRecord(title, sourceId, DetailsOf(title),
                        matchFacultyToBook(faculty, title, DetailsOf(title).extract, NULL))
    IN  IF \/ Single(store, [book_uri |-> bookUri]) # {}
           \/ Single(store, [source |-> "wikibooks", source_id |-> sourceId]) # {}
        THEN [store |-> store, counter |-> "skipped"]
        ELSE [store |-> store \cup
                  {StoredRow(IF HasUriColumn THEN WithUri(bookData, bookUri) ELSE bookData,
                             Cardinality(store) + 1)},
              counter |-> "inserted"]

PutGutenbergBook(book, store) ==
    LET id    == ParseInt(Field(book, "Text#"))
        found == Single(store, [gutenberg_id |-> id])
    IN  IF FalsyNumber(id) THEN [store |-> store, counter |-> "skipped"]
        ELSE IF found # {}
        THEN [store |-> {IF b \in found /\ ~Truthy(b.cover_url)
                         THEN [b EXCEPT !["cover_url"] = getGutenbergCoverUrl(id)]
                         ELSE b : b \in store},
              counter |-> "skipped"]
        ELSE [store |-> store \cup {StoredRow(GutenbergRecord(book), Cardinality(store) + 1)},
              counter |-> "inserted"]

\* the items from the k-th on put one after the other into outcome.store
RECURSIVE PutAll(_, _, _, _)
PutAll(kind, items, k, outcome) ==
    IF k > Len(items) THEN outcome
    ELSE \* TLC: the item's result is bound once
         CHOOSE next \in
             {PutAll(kind, items, k + 1,
                     [store |-> put.store,
                      inserted |-> outcome.inserted + (IF put.counter = "inserted" THEN 1 ELSE 0),
                      skipped |-> outcome.skipped + (IF put.counter = "skipped" THEN 1 ELSE 0),
                      errors |-> outcome.errors]) :
              put \in {IF kind = "wikibooks" THEN PutWikibook(items[k], outcome.store)
                       ELSE PutGutenbergBook(items[k], outcome.store)}} : TRUE

\* run r has ended its list and every request of it was answered: no page
\* was missing, no request failed, the store refused nothing for a reason
\* of its own
AnsweredThroughout(r) ==
    /\ run[r].pc = "done" /\ ~run[r].listingFailed
    /\ \A e \in Entries(r) : Clean(e)

\* C28: whatever batchSize the item loop of a run was given, a run that
\* ends with every request answered leaves the store and the inserted,
\* skipped and errors counters that putting its items one after the other,
\* with no batches, into some store it may have started on leaves; so two
\* runs over the same items and the same store that differ in batchSize
\* only end with the same store and the same counters.
C28_BatchSizeIrrelevant ==
    \A r \in IngestionRuns :
        AnsweredThroughout(r) =>
            \E store \in (IF run[r].kind = "wikibooks" THEN WikiStores ELSE GutenbergStores) :
                LET outcome == PutAll(run[r].kind, run[r].pagesToProcess, 1,
                                      [store |-> store, inserted |-> 0,
                                       skipped |-> 0, errors |-> 0])
                IN  /\ {b.id : b \in store} = {b.id : b \in InitialRows}
                    /\ books = outcome.store
                    /\ run[r].inserted = outcome.inserted
                    /\ run[r].skipped = outcome.skipped
                    /\ run[r].errors = outcome.errors

\* a run given a batchSize smaller than its list, so that it went through
\* several batches, has ended with books inserted and a book skipped
C28_Witness ==
    \E r \in WikiRuns :
        /\ AnsweredThroughout(r)
        /\ run[r].batchSize < Len(run[r].pagesToProcess)
        /\ run[r].batchSize # WikiBatchSize
        /\ run[r].inserted >= 2 /\ run[r].skipped >= 1

\* the entries of run r's history that went to counter
Counted(r, counter) == {k \in 1..Len(hist[r]) : hist[r][k].counter = counter}

\* C29: at every point of a Wikibooks run each finished item has gone to
\* exactly one of inserted, skipped and errors, each counter is the number of
\* finished items that went to it, so that their sum is the number of
\* finished items (the position of the loop while an item is in progress),
\* and once the run has ended after its summary the sum is the length of the
\* list to process.
C29_CountersSumToFinished ==
    \A r \in WikiRuns :
        /\ \A k \in 1..Len(hist[r]) : hist[r][k].counter \in {"inserted", "skipped", "errors"}
        /\ run[r].inserted = Cardinality(Counted(r, "inserted"))
        /\ run[r].skipped = Cardinality(Counted(r, "skipped"))
        /\ run[r].errors = Cardinality(Counted(r, "errors"))
        /\ run[r].inserted + run[r].skipped + run[r].errors = Len(hist[r])
        /\ run[r].pc \in ItemPcs =>
              run[r].inserted + run[r].skipped + run[r].errors = run[r].i + run[r].j - 1
        /\ run[r].pc = "done" =>
              run[r].inserted + run[r].skipped + run[r].errors = Len(run[r].pagesToProcess)

\* a run over six pages has ended with each of the three counters raised
C29_Witness ==
    \E r \in WikiRuns :
        /\ run[r].pc = "done" /\ Len(run[r].pagesToProcess) = 6
        /\ run[r].inserted > 0 /\ run[r].skipped > 0 /\ run[r].errors > 0
        /\ run[r].inserted + run[r].skipped + run[r].errors = 6

\* the rows the Wikibooks runs have stored
StoredByWikibooks == {b \in books : \E r \in WikiRuns : b.id \in added[r]}

\* C30: on a store with the book_uri column, unique book_uri and unique
\* (source, source_id), every row insertWikibook has stored carries
\* book_uri = "wikibooks://" + source_id, and an item whose first insert was
\* answered with a message naming book_uri, so that the insert was repeated
\* without the field, ended with nothing stored: the repeated insert was
\* refused as a duplicate (or for a reason of the store's own).
C30_StoredRowCarriesUri ==
    (HasUriColumn /\ HasSourceColumn) =>
        /\ \A b \in StoredByWikibooks :
                /\ b.source = "wikibooks"
                /\ b.book_uri = "wikibooks://" \o b.source_id
        /\ \A r \in WikiRuns : \A e \in Entries(r) :
                e.attempts = 2 =>
                    /\ e.result = "null" /\ e.counter = "skipped"
                    /\ IsDuplicateMessage(e.error) \/ e.error = OtherStoreMessage

\* the first insert of a page another run had stored meanwhile was refused
\* for its book_uri, the insert without the field was refused as a duplicate,
\* and the row the other run stored carries its book_uri
C30_Witness ==
    /\ HasUriColumn /\ HasSourceColumn
    /\ \E r \in WikiRuns : \E e \in Entries(r) :
          /\ e.attempts = 2 /\ IsDuplicateMessage(e.error)
          /\ \E b \in StoredByWikibooks :
                /\ b.title = e.key /\ b.id \notin added[r]
                /\ b.book_uri = generateBookUri("wikibooks", generateWikibookSourceId(e.key))
====
